---------------------------- MODULE Spec2Model ----------------------------
(***************************************************************************)
(* A model of rcore-fs: the Simple File System (rcore-fs-sfs), the mount   *)
(* overlay (rcore-fs-mountfs) and the device layer (rcore-fs/dev).         *)
(*                                                                         *)
(* Units.  One device "cell" stands for one byte of file data, one u32     *)
(* block pointer, or one field of a directory entry; a block is BLKSIZE    *)
(* cells.  A device block is a tagged value: raw cells, an inode record,   *)
(* the superblock or a slice of the free map.  Reading a block through a   *)
(* view it was not last written with yields garbage (GARB cells, or the    *)
(* all-zero inode record of type "Invalid").                               *)
(*                                                                         *)
(* Every operation is a state transformer on a record s that carries the   *)
(* device, the filesystem's fields, the inode cache and the in-memory      *)
(* inode objects, together with res (the Result: "Ok", an FsError, or      *)
(* "panic") and ret (the returned value).  Once res is not "Ok" the rest   *)
(* of the operation has no effect, as with `?` and panic! in the source.   *)
(* Intermediate values are bound with Then and Let, the `?` and `let` of   *)
(* the source.                                                             *)
(***************************************************************************)
EXTENDS Integers, Sequences, FiniteSets, TLC

(***************************************************************************)
(* Bounds of the model.                                                    *)
(***************************************************************************)
\* blocks of the device handed to SimpleFileSystem::create (space / BLKSIZE)
NBlocks == 18
\* in-memory inode objects the caller holds at one time (slots 1..MaxObjs)
MaxObjs == 3
\* MountFS objects: the first, and those mount() makes
MaxMounts == 3
\* MNodes the caller holds at one time
MaxMNodes == 3
\* DevINode directories DevFS may create, the root included
MaxDevNodes == 3

(***************************************************************************)
(* Constants of structs.rs, scaled down.                                   *)
(***************************************************************************)
BLKSIZE == 3
BLKBITS == 24
ENTRY_SIZE == 1
NDIRECT == 1
DIRENT_SIZE == 2
MAX_FILE_SIZE == 26
BLKN_SUPER == 0
BLKN_ROOT == 1
BLKN_FREEMAP == 2
BLK_NENTRY == BLKSIZE \div ENTRY_SIZE
MAX_NBLOCK_DIRECT == NDIRECT
MAX_NBLOCK_INDIRECT == NDIRECT + BLK_NENTRY
MAX_NBLOCK_DOUBLE_INDIRECT == MAX_NBLOCK_INDIRECT + BLK_NENTRY * BLK_NENTRY

\* names are stored in a directory entry's name cell
NameDot == 1
NameDotDot == 2
\* the empty name, which only MNode::find is given
NameEmpty == 0

\* a cell or pointer read through the wrong view
GARB == -1
\* Option::None
NONE == -2
\* a byte of a buffer nothing was written to yet (MaybeUninit)
UNINIT == -3
\* inode-cache values: no entry, a weak reference that cannot upgrade
NOENT == -2
DEAD == -1

VARIABLES
  dev,          \* device: block id -> tagged block
  super_block,  \* Dirty<SuperBlock>: [unused_blocks, dirty]
  free_map,     \* Dirty<BitVec>: [free (the set bits), dirty]
  inodes,       \* BTreeMap<INodeId, Weak<INodeImpl>>: id -> NOENT, DEAD or slot
  objs,         \* in-memory INodeImpl objects by slot; slot 0 is call-local
  halted,       \* "no"; "panic": a panic! or failed assert! ended the program;
                \* "hang": the caller spins on a lock it will never get
  last,         \* the last call: its name, result and what the claims read of it
  held,         \* block id -> how often alloc_block returned it since it was freed
  budget,       \* the calls the caller may still make
  fsb,          \* the second SimpleFileSystem: its dev, sb, fm, inodes, objs
  mount_fs,     \* the MountFS objects: [inner, self_mountpoint]
  mountpoints,  \* mountpoints of each MountFS: inode id -> MountFS or NONE
  mnodes,       \* the MNodes the caller holds
  locking,      \* concurrent tasks: the lock operations each has still to do
                \* in its call, the guards it holds, and the inodes' sizes
  devfs,        \* a DevFS: its DevINodes' children and parents by inode_id
  block_dev,    \* a BlockDevice: its bytes
  suspended     \* task -> the call it is in the middle of, waiting at an
                \* .await of the device, with the locals it goes on with

vars == <<dev, super_block, free_map, inodes, objs, halted, last, held, budget,
          fsb, mount_fs, mountpoints, mnodes, locking, devfs, block_dev,
          suspended>>

BlockIds == 0 .. NBlocks - 1
Slots == 0 .. MaxObjs

Min(S) == CHOOSE x \in S : \A y \in S : x <= y

(***************************************************************************)
(* SimpleFileSystem::create's layout arithmetic.                           *)
(***************************************************************************)
Space == NBlocks * BLKSIZE
SbBlocks == (Space + BLKSIZE - 1) \div BLKSIZE
FreemapBlocks == ((Space + BLKBITS * BLKSIZE - 1) \div BLKBITS) \div BLKSIZE
NBits == FreemapBlocks * BLKBITS

(***************************************************************************)
(* DiskINode                                                               *)
(***************************************************************************)
NewDiskINode(t) ==
  [type |-> t, size |-> 0, nlinks |-> 0, blocks |-> 0,
   direct |-> [i \in 1 .. NDIRECT |-> 0], indirect |-> 0, db_indirect |-> 0]

\* what load_struct::<DiskINode> decodes from a block of zero bytes
ZeroINode == NewDiskINode("Invalid")

NullObj == [id |-> NONE, di |-> ZeroINode, dirty |-> FALSE]

(***************************************************************************)
(* Device blocks                                                           *)
(***************************************************************************)
CellsBlk(c) == [k |-> "cells", c |-> c]
ZeroBlk == CellsBlk([i \in 1 .. BLKSIZE |-> 0])
Cells(blk) == IF blk.k = "cells" THEN blk.c ELSE [i \in 1 .. BLKSIZE |-> GARB]
DecodeINode(blk) ==
  IF blk.k = "inode" THEN blk.di ELSE ZeroINode

Panic(s) == [s EXCEPT !.res = "panic"]
Hang(s) == [s EXCEPT !.res = "hang"]
Fail(s, e) == [s EXCEPT !.res = e]
Ok(s) == s.res = "Ok"
Then(s, F(_)) == IF s.res = "Ok" THEN F(s) ELSE s
Let(v, F(_)) == F(v)

\* DeviceExt::read_block of one cell; the caller has checked id \in BlockIds
ReadCell(d, id, off) == Cells(d[id])[off + 1]

\* the device during a call: log, the calls made to it so far; bad, the
\* blocks whose write fails; how a write fails: "err", Err(DevError), or
\* "short", Ok(n) with n less than the length
NoFaults == [log |-> <<>>, bad |-> {}, how |-> "err"]
WriteCall(id) == [call |-> "write_at", block |-> id]
SyncCall == [call |-> "sync", block |-> NONE]

\* DeviceExt::write_block: a short or failed device write panics
write_block(s, id, off, vals) ==
  IF id \notin BlockIds \/ off + Len(vals) > BLKSIZE THEN Panic(s)
  ELSE IF id \in s.io.bad
  THEN Panic([s EXCEPT !.io.log = Append(@, WriteCall(id))])
  ELSE [s EXCEPT !.dev[id] =
                   CellsBlk([i \in 1 .. BLKSIZE |->
                              IF i - 1 >= off /\ i - 1 < off + Len(vals)
                              THEN vals[i - off] ELSE Cells(@)[i]]),
                 !.wr = @ + 1,
                 !.io.log = Append(@, WriteCall(id))]

\* Device::write_at of the whole block id, its count not looked at, its
\* error returned with ?
DeviceWriteAt(s, id, block) ==
  IF id \in s.io.bad
  THEN IF s.io.how = "err"
       THEN Fail([s EXCEPT !.io.log = Append(@, WriteCall(id))], "DevError")
       ELSE [s EXCEPT !.io.log = Append(@, WriteCall(id))]
  ELSE [s EXCEPT !.dev[id] = block, !.wr = @ + 1,
                 !.io.log = Append(@, WriteCall(id))]

DeviceSync(s) == [s EXCEPT !.io.log = Append(@, SyncCall)]

(***************************************************************************)
(* Block allocation                                                        *)
(***************************************************************************)
\* BitsetAlloc::alloc: the lowest set bit, cleared
BitsetAlloc(free) == IF free = {} THEN NONE ELSE Min(free)

\* alloc_block, had it left the bit it returns set
alloc_block_keeps_bit(s) ==
  Let(BitsetAlloc(s.fm.free), LAMBDA id :
    IF id = NONE THEN Panic([s EXCEPT !.fm.dirty = TRUE])
    ELSE IF s.sb.unused_blocks = 0
         THEN [s EXCEPT !.fm.dirty = TRUE, !.ret = NONE]
         ELSE [s EXCEPT !.fm.dirty = TRUE,
                        !.sb = [unused_blocks |-> @.unused_blocks - 1,
                                dirty |-> TRUE],
                        !.ret = id])

alloc_block(s) ==
  Let(BitsetAlloc(s.fm.free), LAMBDA id :
    IF id = NONE THEN Panic([s EXCEPT !.fm.dirty = TRUE])
    ELSE IF s.sb.unused_blocks = 0
         THEN [s EXCEPT !.fm.dirty = TRUE, !.ret = NONE]
         ELSE [s EXCEPT !.fm = [free |-> @.free \ {id}, dirty |-> TRUE],
                        !.sb = [unused_blocks |-> @.unused_blocks - 1,
                                dirty |-> TRUE],
                        !.ret = id])

free_block(s, id) ==
  IF id \notin 0 .. NBits - 1 \/ id \in s.fm.free THEN Panic(s)
  ELSE [s EXCEPT !.fm = [free |-> @.free \cup {id}, dirty |-> TRUE],
                 !.sb = [unused_blocks |-> @.unused_blocks + 1,
                         dirty |-> TRUE]]

(***************************************************************************)
(* Inode cache                                                             *)
(***************************************************************************)
FreeSlots(s) == {k \in DOMAIN s.objs \ {0} : s.objs[k].id = NONE}

\* _new_inode: a new object, and the cache entry for id now refers to it.
\* tmp: the Arc is local to the call (slot 0); otherwise the caller keeps it.
\* res "noslot" is the model's bound on held objects, not an FsError.
new_inode(s, id, di, dirty, tmp) ==
  Let(IF tmp THEN 0 ELSE IF FreeSlots(s) = {} THEN NONE ELSE Min(FreeSlots(s)),
      LAMBDA k :
        IF k = NONE THEN Fail(s, "noslot")
        ELSE [s EXCEPT !.objs[k] = [id |-> id, di |-> di, dirty |-> dirty],
                       !.inodes[id] = k,
                       !.ret = k])

get_inode(s, id, tmp) ==
  IF id \notin 0 .. NBits - 1 \/ id \in s.fm.free THEN Panic(s)
  ELSE IF id \notin BlockIds THEN Panic(s)
  ELSE IF s.inodes[id] >= 0 THEN [s EXCEPT !.ret = s.inodes[id]]
  ELSE new_inode(s, id, DecodeINode(s.dev[id]), FALSE, tmp)

\* the end of a call: its local Arc goes, and with it the object
DropTemp(s) ==
  IF s.objs[0].id = NONE THEN s
  ELSE [s EXCEPT !.objs[0] = NullObj,
                 !.inodes = [i \in BlockIds |-> IF @[i] = 0 THEN DEAD ELSE @[i]]]


(***************************************************************************)
(* BlockIter (util.rs): the ranges (block, begin, end) covering [b, e)     *)
(***************************************************************************)
RECURSIVE BlockIter(_, _)
BlockIter(b, e) ==
  IF b >= e THEN <<>>
  ELSE Let(IF b \div BLKSIZE = e \div BLKSIZE THEN e % BLKSIZE ELSE BLKSIZE,
           LAMBDA end :
             <<[block |-> b \div BLKSIZE, begin |-> b % BLKSIZE, end |-> end]>>
               \o BlockIter(b + (end - (b % BLKSIZE)), e))

MinOf(a, b) == IF a < b THEN a ELSE b

(***************************************************************************)
(* File block -> disk block                                                *)
(***************************************************************************)
Val(v) == [res |-> "Ok", v |-> v]
Err(e) == [res |-> e, v |-> NONE]

\* the double-indirect arm: the page from db_indirect, then the entry in the page
GetDoubleIndirect(d, di, indirect_id) ==
  IF di.db_indirect \notin BlockIds THEN Err("panic")
  ELSE Let(ReadCell(d, di.db_indirect, ENTRY_SIZE * (indirect_id \div BLK_NENTRY)),
           LAMBDA indirect_block_id :
             IF ~(indirect_block_id > 0) \/ indirect_block_id \notin BlockIds
             THEN Err("panic")
             ELSE Let(ReadCell(d, indirect_block_id,
                               ENTRY_SIZE * (indirect_id % BLK_NENTRY)),
                      LAMBDA disk_block_id :
                        IF ~(disk_block_id > 0) THEN Err("panic")
                        ELSE Val(disk_block_id)))

get_disk_block_id(d, di, fid) ==
  IF fid >= di.blocks THEN Err("InvalidParam")
  ELSE IF fid < MAX_NBLOCK_DIRECT THEN Val(di.direct[fid + 1])
  ELSE IF fid < MAX_NBLOCK_INDIRECT THEN
    IF di.indirect \notin BlockIds THEN Err("panic")
    ELSE Val(ReadCell(d, di.indirect, ENTRY_SIZE * (fid - NDIRECT)))
  ELSE IF fid < MAX_NBLOCK_DOUBLE_INDIRECT
  THEN GetDoubleIndirect(d, di, fid - MAX_NBLOCK_INDIRECT)
  ELSE Err("panic")

SetDoubleIndirect(s, k, indirect_id, bid) ==
  IF s.objs[k].di.db_indirect \notin BlockIds THEN Panic(s)
  ELSE Let(ReadCell(s.dev, s.objs[k].di.db_indirect,
                    ENTRY_SIZE * (indirect_id \div BLK_NENTRY)),
           LAMBDA indirect_block_id :
             IF ~(indirect_block_id > 0) THEN Panic(s)
             ELSE write_block(s, indirect_block_id,
                              ENTRY_SIZE * (indirect_id % BLK_NENTRY), <<bid>>))

set_disk_block_id(s, k, fid, bid) ==
  IF fid >= s.objs[k].di.blocks THEN Fail(s, "InvalidParam")
  ELSE IF fid < MAX_NBLOCK_DIRECT THEN
    [s EXCEPT !.objs[k].di.direct[fid + 1] = bid, !.objs[k].dirty = TRUE]
  ELSE IF fid < MAX_NBLOCK_INDIRECT THEN
    write_block(s, s.objs[k].di.indirect, ENTRY_SIZE * (fid - NDIRECT), <<bid>>)
  ELSE IF fid < MAX_NBLOCK_DOUBLE_INDIRECT
  THEN SetDoubleIndirect(s, k, fid - MAX_NBLOCK_INDIRECT, bid)
  ELSE Panic(s)

(***************************************************************************)
(* Byte I/O                                                                *)
(***************************************************************************)
SubSeqFrom(buf, off, n) == [i \in 1 .. n |-> buf[off + i]]
Zeros(n) == [i \in 1 .. n |-> 0]

\* the loop of _write_at over the ranges left; s.ret is buf_offset
RECURSIVE WriteRanges(_, _, _, _)
WriteRanges(s, k, ranges, buf) ==
  IF ~Ok(s) \/ ranges = <<>> THEN s
  ELSE Let(get_disk_block_id(s.dev, s.objs[k].di, Head(ranges).block), LAMBDA b :
         IF b.res # "Ok" THEN Fail(s, b.res)
         ELSE WriteRanges(
                [write_block(s, b.v, Head(ranges).begin,
                             SubSeqFrom(buf, s.ret,
                                        Head(ranges).end - Head(ranges).begin))
                   EXCEPT !.ret = s.ret + (Head(ranges).end - Head(ranges).begin)],
                k, Tail(ranges), buf))

_write_at(s, k, offset, buf) ==
  WriteRanges([s EXCEPT !.ret = 0], k,
              BlockIter(MinOf(s.objs[k].di.size, offset),
                        MinOf(s.objs[k].di.size, offset + Len(buf))),
              buf)

\* the loop of _clean_at: ZEROS[..range.len()] to every range
RECURSIVE CleanRanges(_, _, _)
CleanRanges(s, k, ranges) ==
  IF ~Ok(s) \/ ranges = <<>> THEN s
  ELSE Let(get_disk_block_id(s.dev, s.objs[k].di, Head(ranges).block), LAMBDA b :
         IF b.res # "Ok" THEN Fail(s, b.res)
         ELSE CleanRanges(
                [write_block(s, b.v, Head(ranges).begin,
                             Zeros(Head(ranges).end - Head(ranges).begin))
                   EXCEPT !.ret = s.ret + (Head(ranges).end - Head(ranges).begin)],
                k, Tail(ranges)))

_clean_at(s, k, begin, end) ==
  CleanRanges([s EXCEPT !.ret = 0], k,
              BlockIter(MinOf(s.objs[k].di.size, begin),
                        MinOf(s.objs[k].di.size, end)))

\* the loop of _read_at: acc is [res, n, data], the bytes read so far
RECURSIVE ReadRanges(_, _, _, _)
ReadRanges(d, di, ranges, acc) ==
  IF ranges = <<>> THEN acc
  ELSE Let(get_disk_block_id(d, di, Head(ranges).block), LAMBDA b :
         IF b.res # "Ok" THEN [acc EXCEPT !.res = b.res]
         ELSE IF b.v \notin BlockIds THEN [acc EXCEPT !.res = "panic"]
         ELSE ReadRanges(d, di, Tail(ranges),
                [acc EXCEPT !.n = @ + (Head(ranges).end - Head(ranges).begin),
                            !.data = @ \o [i \in 1 .. Head(ranges).end - Head(ranges).begin |->
                                             ReadCell(d, b.v, Head(ranges).begin + i - 1)]]))

_read_at(d, di, offset, len) ==
  ReadRanges(d, di,
             BlockIter(MinOf(di.size, offset), MinOf(di.size, offset + len)),
             [res |-> "Ok", n |-> 0, data |-> <<>>])

(***************************************************************************)
(* _resize                                                                 *)
(***************************************************************************)
\* self.fs.alloc_block().expect("no space")
alloc_expect(s) ==
  Let(alloc_block(s), LAMBDA a : IF Ok(a) /\ a.ret = NONE THEN Panic(a) ELSE a)

\* for i in indirect_begin..indirect_end: a new indirect page, recorded in db_indirect
RECURSIVE GrowPages(_, _, _, _)
GrowPages(s, k, i, indirect_end) ==
  IF ~Ok(s) \/ i >= indirect_end THEN s
  ELSE GrowPages(Then(alloc_expect(s), LAMBDA a :
                   write_block(a, a.objs[k].di.db_indirect, ENTRY_SIZE * i, <<a.ret>>)),
                 k, i + 1, indirect_end)

\* for i in old_blocks..blocks: a new data block, installed as file block i
RECURSIVE GrowData(_, _, _, _)
GrowData(s, k, i, blocks) ==
  IF ~Ok(s) \/ i >= blocks THEN s
  ELSE GrowData(Then(alloc_expect(s), LAMBDA a : set_disk_block_id(a, k, i, a.ret)),
                k, i + 1, blocks)

\* allocate indirect block if needed
GrowIndirect(s, k, blocks, old_blocks) ==
  IF old_blocks < MAX_NBLOCK_DIRECT /\ blocks >= MAX_NBLOCK_DIRECT
  THEN Then(alloc_expect(s), LAMBDA a : [a EXCEPT !.objs[k].di.indirect = a.ret])
  ELSE s

\* allocate double indirect block if needed, and the indirect pages
GrowDbIndirect(s, k, blocks, old_blocks) ==
  IF blocks >= MAX_NBLOCK_INDIRECT
  THEN Then(IF s.objs[k].di.db_indirect = 0
            THEN Then(alloc_expect(s), LAMBDA b :
                        [b EXCEPT !.objs[k].di.db_indirect = b.ret])
            ELSE s,
            LAMBDA a :
              GrowPages(a, k,
                        IF old_blocks < MAX_NBLOCK_INDIRECT THEN 0
                        ELSE (old_blocks - MAX_NBLOCK_INDIRECT) \div BLK_NENTRY + 1,
                        (blocks - MAX_NBLOCK_INDIRECT) \div BLK_NENTRY + 1))
  ELSE s

\* the Greater branch up to the end of the loop that allocates the blocks
ResizeGreaterBlocks(s, k, blocks, old_blocks) ==
  Then(GrowIndirect([s EXCEPT !.objs[k].di.blocks = blocks, !.objs[k].dirty = TRUE],
                    k, blocks, old_blocks), LAMBDA s2 :
  Then(GrowDbIndirect(s2, k, blocks, old_blocks), LAMBDA s3 :
       GrowData(s3, k, old_blocks, blocks)))

\* the Greater branch from there on: the size is set and the new range cleaned
ResizeGreaterSize(u, k, len) ==
  _clean_at([u EXCEPT !.objs[k].di.size = len, !.objs[k].dirty = TRUE],
            k, u.objs[k].di.size, len)

ResizeGreater(s, k, len, blocks, old_blocks) ==
  Then(ResizeGreaterBlocks(s, k, blocks, old_blocks), LAMBDA u :
       ResizeGreaterSize(u, k, len))

\* for i in blocks..old_blocks: free file block i's disk block
RECURSIVE ShrinkData(_, _, _, _)
ShrinkData(s, k, i, old_blocks) ==
  IF ~Ok(s) \/ i >= old_blocks THEN s
  ELSE Let(get_disk_block_id(s.dev, s.objs[k].di, i), LAMBDA b :
         IF b.res # "Ok" THEN Fail(s, b.res)
         ELSE ShrinkData(free_block(s, b.v), k, i + 1, old_blocks))

\* for i in indirect_begin..indirect_end: free the indirect page db_indirect records
RECURSIVE ShrinkPages(_, _, _, _)
ShrinkPages(s, k, i, indirect_end) ==
  IF ~Ok(s) \/ i >= indirect_end THEN s
  ELSE IF s.objs[k].di.db_indirect \notin BlockIds \/ ENTRY_SIZE * i >= BLKSIZE
       THEN Panic(s)
  ELSE Let(ReadCell(s.dev, s.objs[k].di.db_indirect, ENTRY_SIZE * i), LAMBDA indirect :
         IF ~(indirect > 0) THEN Panic(s)
         ELSE ShrinkPages(free_block(s, indirect), k, i + 1, indirect_end))

\* FreeIndirect, had it left the indirect block allocated
FreeIndirect_keeps(s, k, blocks) ==
  IF blocks < MAX_NBLOCK_DIRECT /\ s.objs[k].di.blocks >= MAX_NBLOCK_DIRECT
  THEN [s EXCEPT !.objs[k].di.indirect = 0, !.objs[k].dirty = TRUE]
  ELSE s

\* free indirect block if needed
FreeIndirect(s, k, blocks) ==
  IF blocks < MAX_NBLOCK_DIRECT /\ s.objs[k].di.blocks >= MAX_NBLOCK_DIRECT
  THEN Then(free_block(s, s.objs[k].di.indirect), LAMBDA u :
         [u EXCEPT !.objs[k].di.indirect = 0, !.objs[k].dirty = TRUE])
  ELSE s

\* free double indirect block if needed, after the indirect pages
FreeDbIndirect(s, k, blocks) ==
  IF s.objs[k].di.blocks >= MAX_NBLOCK_INDIRECT
  THEN Then(ShrinkPages(s, k,
                        IF blocks < MAX_NBLOCK_INDIRECT THEN 0
                        ELSE (blocks - MAX_NBLOCK_INDIRECT) \div BLK_NENTRY + 1,
                        (s.objs[k].di.blocks - MAX_NBLOCK_INDIRECT) \div BLK_NENTRY + 1),
            LAMBDA p :
              IF blocks < MAX_NBLOCK_INDIRECT
              THEN IF ~(p.objs[k].di.db_indirect > 0) THEN Panic(p)
                   ELSE Then(free_block(p, p.objs[k].di.db_indirect), LAMBDA u :
                          [u EXCEPT !.objs[k].di.db_indirect = 0,
                                    !.objs[k].dirty = TRUE])
              ELSE p)
  ELSE s

ResizeLess(s, k, len, blocks, old_blocks) ==
  Then(ShrinkData(s, k, blocks, old_blocks), LAMBDA s1 :
  Then(FreeIndirect(s1, k, blocks), LAMBDA s2 :
  Then(FreeDbIndirect(s2, k, blocks), LAMBDA u :
       [u EXCEPT !.objs[k].di.blocks = blocks, !.objs[k].di.size = len,
                 !.objs[k].dirty = TRUE])))

\* match blocks.cmp(&old_blocks)
ResizeTo(s, k, len, blocks, old_blocks) ==
  IF blocks > MAX_NBLOCK_DOUBLE_INDIRECT THEN Fail(s, "InvalidParam")
  ELSE IF blocks = old_blocks
       THEN [s EXCEPT !.objs[k].di.size = len, !.objs[k].dirty = TRUE]
  ELSE IF blocks > old_blocks
       THEN ResizeGreater(s, k, len, blocks, old_blocks)
  ELSE ResizeLess(s, k, len, blocks, old_blocks)

_resize(s, k, len) ==
  IF len > MAX_FILE_SIZE THEN Fail(s, "InvalidParam")
  ELSE ResizeTo(s, k, len, (len + BLKSIZE - 1) \div BLKSIZE, s.objs[k].di.blocks)

(***************************************************************************)
(* Directory entries: DiskEntry{id, name}, DIRENT_SIZE cells               *)
(***************************************************************************)
\* Str256::from and Str256::as_ref, on the short NUL-free names of the model
Str256(name) == name

read_direntry(d, di, i) ==
  Let(_read_at(d, di, DIRENT_SIZE * i, DIRENT_SIZE), LAMBDA r :
    [res |-> r.res,
     id |-> IF r.n >= 1 THEN r.data[1] ELSE GARB,
     name |-> IF r.n >= 2 THEN r.data[2] ELSE GARB])

write_direntry(s, k, i, id, name) ==
  _write_at(s, k, DIRENT_SIZE * i, <<id, Str256(name)>>)

\* get_file_inode_and_entry_id: the first entry named name, from entry i on
RECURSIVE FindEntry(_, _, _, _)
FindEntry(d, di, name, i) ==
  IF i >= di.size \div DIRENT_SIZE
  THEN [res |-> "Ok", id |-> NONE, idx |-> NONE]
  ELSE Let(read_direntry(d, di, i), LAMBDA e :
         IF e.res # "Ok" THEN [res |-> "panic", id |-> NONE, idx |-> NONE]
         ELSE IF e.name = Str256(name) THEN [res |-> "Ok", id |-> e.id, idx |-> i]
         ELSE FindEntry(d, di, name, i + 1))

get_file_inode_and_entry_id(s, k, name) ==
  FindEntry(s.dev, s.objs[k].di, name, 0)

append_direntry(s, k, id, name) ==
  Then(_resize(s, k, s.objs[k].di.size + DIRENT_SIZE), LAMBDA u :
       write_direntry(u, k, s.objs[k].di.size \div DIRENT_SIZE, id, name))

\* s.rm collects the slots remove_direntry was called on
remove_direntry(s, k, id) ==
  IF s.objs[k].di.size \div DIRENT_SIZE = 0 THEN Panic([s EXCEPT !.rm = @ \cup {id}])
  ELSE Let(read_direntry(s.dev, s.objs[k].di, s.objs[k].di.size \div DIRENT_SIZE - 1),
           LAMBDA last_dirent :
             IF last_dirent.res # "Ok"
             THEN Fail([s EXCEPT !.rm = @ \cup {id}], last_dirent.res)
             ELSE Then(write_direntry([s EXCEPT !.rm = @ \cup {id}], k, id,
                                      last_dirent.id, last_dirent.name),
                       LAMBDA u : _resize(u, k, s.objs[k].di.size - DIRENT_SIZE)))

init_direntry(s, k, parent) ==
  Then(_resize(s, k, DIRENT_SIZE * 2), LAMBDA u :
  Then(write_direntry(u, k, 0, u.objs[k].id, NameDot), LAMBDA v :
       write_direntry(v, k, 1, parent, NameDotDot)))

nlinks_inc(s, k) ==
  [s EXCEPT !.objs[k].di.nlinks = @ + 1, !.objs[k].dirty = TRUE]

nlinks_dec(s, k) ==
  IF ~(s.objs[k].di.nlinks > 0) THEN Panic(s)
  ELSE [s EXCEPT !.objs[k].di.nlinks = @ - 1, !.objs[k].dirty = TRUE]

\* the caller lets go of every Arc to the object in slot k
DropObj(s, k) ==
  [s EXCEPT !.objs[k] = NullObj,
            !.inodes = [i \in BlockIds |-> IF @[i] = k THEN DEAD ELSE @[i]]]

\* metadata() panics on a type it does not know
MetaTypes == {"File", "SymLink", "Dir", "CharDevice", "BlockDevice"}

\* the checks link and link_inodeimpl share
LinkChecks(s, k, name, o) ==
  IF s.objs[k].di.type \notin MetaTypes THEN Panic(s)
  ELSE IF s.objs[k].di.type # "Dir" THEN Fail(s, "NotDir")
  ELSE IF s.objs[k].di.nlinks <= 0 THEN Fail(s, "DirRemoved")
  ELSE Let(get_file_inode_and_entry_id(s, k, name), LAMBDA f :
         IF f.res # "Ok" THEN Fail(s, f.res)
         ELSE IF f.id # NONE THEN Fail(s, "EntryExist")
         ELSE IF s.objs[o].di.type \notin MetaTypes THEN Panic(s)
         ELSE IF s.objs[o].di.type = "Dir" THEN Fail(s, "IsDir")
         ELSE s)

\* link_inodeimpl takes disk_inode.write() and, holding it, calls _resize,
\* whose disk_inode.read() then spins for ever (spin::RwLock)
link_inodeimpl(s, k, name, o) ==
  Then(LinkChecks(s, k, name, o), LAMBDA u :
    IF u.objs[k].di.size + BLKSIZE > MAX_FILE_SIZE
       \/ (u.objs[k].di.size + BLKSIZE + BLKSIZE - 1) \div BLKSIZE
            > MAX_NBLOCK_DOUBLE_INDIRECT
    THEN Fail(u, "InvalidParam")
    ELSE Hang(u))

(***************************************************************************)
(* impl vfs::INode for INodeImpl                                           *)
(***************************************************************************)
\* sync_all, had it forgotten disk_inode.sync()
sync_all_stays_dirty(s, k) ==
  IF s.objs[k].dirty
  THEN IF s.objs[k].id \notin BlockIds THEN Panic(s)
       ELSE IF s.objs[k].id \in s.io.bad
       THEN Panic([s EXCEPT !.io.log = Append(@, WriteCall(s.objs[k].id))])
       ELSE [s EXCEPT !.dev[s.objs[k].id] = [k |-> "inode", di |-> s.objs[k].di],
                      !.wr = @ + 1,
                      !.io.log = Append(@, WriteCall(s.objs[k].id))]
  ELSE s

sync_all(s, k) ==
  IF s.objs[k].dirty
  THEN IF s.objs[k].id \notin BlockIds THEN Panic(s)
       ELSE IF s.objs[k].id \in s.io.bad
       THEN Panic([s EXCEPT !.io.log = Append(@, WriteCall(s.objs[k].id))])
       ELSE [s EXCEPT !.dev[s.objs[k].id] = [k |-> "inode", di |-> s.objs[k].di],
                      !.wr = @ + 1,
                      !.io.log = Append(@, WriteCall(s.objs[k].id)),
                      !.objs[k].dirty = FALSE]
  ELSE s

flush(s, k) ==
  Then(sync_all(s, k), LAMBDA u :
    IF u.objs[k].di.nlinks <= 0
    THEN Let(_resize(u, k, 0), LAMBDA r :
           IF ~Ok(r) THEN Panic(r)
           ELSE free_block([r EXCEPT !.objs[k].dirty = FALSE], r.objs[k].id))
    ELSE u)

read_at(s, k, offset, len) ==
  IF s.objs[k].di.type \in {"File", "SymLink"}
  THEN _read_at(s.dev, s.objs[k].di, offset, len)
  ELSE IF s.objs[k].di.type = "CharDevice"
  THEN [res |-> "DeviceError", n |-> 0, data |-> <<>>]
  ELSE [res |-> "NotFile", n |-> 0, data |-> <<>>]

\* write_at, had it not grown the file before writing
write_at_no_grow(s, k, offset, buf) ==
  IF s.objs[k].di.type \in {"File", "SymLink"}
  THEN _write_at(s, k, offset, buf)
  ELSE IF s.objs[k].di.type = "CharDevice" THEN Fail(s, "DeviceError")
  ELSE Fail(s, "NotFile")

\* write_at, had it resized to the end of the write whatever the size
write_at_truncates(s, k, offset, buf) ==
  IF s.objs[k].di.type \in {"File", "SymLink"}
  THEN Then(_resize(s, k, offset + Len(buf)),
            LAMBDA u : _write_at(u, k, offset, buf))
  ELSE IF s.objs[k].di.type = "CharDevice" THEN Fail(s, "DeviceError")
  ELSE Fail(s, "NotFile")

write_at(s, k, offset, buf) ==
  IF s.objs[k].di.type \in {"File", "SymLink"}
  THEN Then(IF s.objs[k].di.size < offset + Len(buf)
            THEN _resize(s, k, offset + Len(buf)) ELSE s,
            LAMBDA u : _write_at(u, k, offset, buf))
  ELSE IF s.objs[k].di.type = "CharDevice" THEN Fail(s, "DeviceError")
  ELSE Fail(s, "NotFile")

resize(s, k, len) ==
  IF s.objs[k].di.type \notin {"File", "SymLink"} THEN Fail(s, "NotFile")
  ELSE _resize(s, k, len)

\* new_inode_file / new_inode_symlink / new_inode_dir / new_inode_chardevice
new_inode_of(s, type, parent) ==
  Then(alloc_block(s), LAMBDA a :
    IF a.ret = NONE THEN Fail(a, "NoDeviceSpace")
    ELSE Then(new_inode(a, a.ret, NewDiskINode(type), TRUE, FALSE), LAMBDA n :
           IF type = "Dir"
           THEN Let(init_direntry(n, n.ret, parent), LAMBDA d :
                  IF Ok(d) THEN [d EXCEPT !.ret = n.ret] ELSE DropObj(d, n.ret))
           ELSE n))

\* create2 up to the end of the lookup of the name
create2_checks(s, k, name) ==
  IF s.objs[k].di.type \notin MetaTypes THEN Panic(s)
  ELSE IF s.objs[k].di.type # "Dir" THEN Fail(s, "NotDir")
  ELSE IF s.objs[k].di.nlinks <= 0 THEN Fail(s, "DirRemoved")
  ELSE Let(get_file_inode_and_entry_id(s, k, name), LAMBDA f :
         IF f.res # "Ok" THEN Fail(s, f.res)
         ELSE IF f.id # NONE THEN Fail(s, "EntryExist")
         ELSE s)

\* create2 from the new inode on
create2_entry(s, k, name, type) ==
  IF type \notin {"File", "SymLink", "Dir", "CharDevice"}
  THEN Fail(s, "InvalidParam")
  ELSE Then(new_inode_of(s, type, s.objs[k].id), LAMBDA n :
         Let(append_direntry(n, k, n.objs[n.ret].id, name), LAMBDA a :
           IF ~Ok(a) THEN DropObj(a, n.ret)
           ELSE [(IF type = "Dir"
                  THEN nlinks_inc(nlinks_inc(nlinks_inc(a, n.ret), n.ret), k)
                  ELSE nlinks_inc(a, n.ret))
                   EXCEPT !.ret = n.ret]))

create2(s, k, name, type) ==
  Then(create2_checks(s, k, name), LAMBDA u : create2_entry(u, k, name, type))

link(s, k, name, o) ==
  Then(LinkChecks(s, k, name, o), LAMBDA u :
    Then(append_direntry(u, k, u.objs[o].id, name), LAMBDA v : nlinks_inc(v, o)))

unlink(s, k, name) ==
  IF s.objs[k].di.type \notin MetaTypes THEN Panic(s)
  ELSE IF s.objs[k].di.type # "Dir" THEN Fail(s, "NotDir")
  ELSE IF s.objs[k].di.nlinks <= 0 THEN Fail(s, "DirRemoved")
  ELSE IF name = NameDot \/ name = NameDotDot THEN Fail(s, "IsDir")
  ELSE Let(get_file_inode_and_entry_id(s, k, name), LAMBDA f :
         IF f.res # "Ok" THEN Fail(s, f.res)
         ELSE IF f.id = NONE THEN Fail(s, "EntryNotFound")
         ELSE Then(get_inode(s, f.id, TRUE), LAMBDA g :
                IF g.objs[g.ret].di.type = "Dir"
                   /\ g.objs[g.ret].di.size \div DIRENT_SIZE > 2
                THEN Fail(g, "DirNotEmpty")
                ELSE Then(IF g.objs[g.ret].di.type = "Dir"
                          THEN Then(Then(nlinks_dec(g, g.ret),
                                         LAMBDA u : nlinks_dec(u, g.ret)),
                                    LAMBDA u : nlinks_dec(u, k))
                          ELSE nlinks_dec(g, g.ret),
                          LAMBDA u : remove_direntry(u, k, f.idx))))

\* MoveEntry, had it left the old entry in the source directory
MoveEntry_keeps_old(s, k, old_name, t, new_name) ==
  Then(Let(get_file_inode_and_entry_id(s, t, new_name), LAMBDA e :
         IF e.res # "Ok" THEN Fail(s, e.res)
         ELSE IF e.id # NONE THEN remove_direntry(s, t, e.idx)
         ELSE s),
       LAMBDA u :
         Let(get_file_inode_and_entry_id(u, k, old_name), LAMBDA f :
           IF f.res # "Ok" THEN Fail(u, f.res)
           ELSE IF f.id = NONE THEN Fail(u, "EntryNotFound")
           ELSE IF u.objs[k].id = u.objs[t].id
                THEN write_direntry(u, k, f.idx, f.id, new_name)
           ELSE Then(append_direntry(u, t, f.id, new_name), LAMBDA w :
                Then(get_inode(w, f.id, TRUE), LAMBDA g :
                  IF g.objs[g.ret].di.type \notin MetaTypes THEN Panic(g)
                  ELSE IF g.objs[g.ret].di.type = "Dir"
                       THEN Then(nlinks_dec(g, k), LAMBDA x : nlinks_inc(x, t))
                  ELSE g))))

\* move_ once both directories have passed their checks
MoveEntry(s, k, old_name, t, new_name) ==
  Then(Let(get_file_inode_and_entry_id(s, t, new_name), LAMBDA e :
         IF e.res # "Ok" THEN Fail(s, e.res)
         ELSE IF e.id # NONE THEN remove_direntry(s, t, e.idx)
         ELSE s),
       LAMBDA u :
         Let(get_file_inode_and_entry_id(u, k, old_name), LAMBDA f :
           IF f.res # "Ok" THEN Fail(u, f.res)
           ELSE IF f.id = NONE THEN Fail(u, "EntryNotFound")
           ELSE IF u.objs[k].id = u.objs[t].id
                THEN write_direntry(u, k, f.idx, f.id, new_name)
           ELSE Then(append_direntry(u, t, f.id, new_name), LAMBDA v :
                Then(remove_direntry(v, k, f.idx), LAMBDA w :
                Then(get_inode(w, f.id, TRUE), LAMBDA g :
                  IF g.objs[g.ret].di.type \notin MetaTypes THEN Panic(g)
                  ELSE IF g.objs[g.ret].di.type = "Dir"
                       THEN Then(nlinks_dec(g, k), LAMBDA x : nlinks_inc(x, t))
                  ELSE g)))))

move_(s, k, old_name, t, new_name) ==
  IF s.objs[k].di.type \notin MetaTypes THEN Panic(s)
  ELSE IF s.objs[k].di.type # "Dir" THEN Fail(s, "NotDir")
  ELSE IF s.objs[k].di.nlinks <= 0 THEN Fail(s, "DirRemoved")
  ELSE IF old_name = NameDot \/ old_name = NameDotDot THEN Fail(s, "IsDir")
  ELSE IF s.objs[t].di.type \notin MetaTypes THEN Panic(s)
  ELSE IF s.objs[t].di.type # "Dir" THEN Fail(s, "NotDir")
  ELSE IF s.objs[t].di.nlinks <= 0 THEN Fail(s, "DirRemoved")
  ELSE MoveEntry(s, k, old_name, t, new_name)

find(s, k, name) ==
  IF s.objs[k].di.type \notin MetaTypes THEN Panic(s)
  ELSE IF s.objs[k].di.type # "Dir" THEN Fail(s, "NotDir")
  ELSE Let(get_file_inode_and_entry_id(s, k, name), LAMBDA f :
         IF f.res # "Ok" THEN Fail(s, f.res)
         ELSE IF f.id = NONE THEN Fail(s, "EntryNotFound")
         ELSE get_inode(s, f.id, FALSE))

get_entry(s, k, id) ==
  IF s.objs[k].di.type # "Dir" THEN [res |-> "NotDir", name |-> NONE]
  ELSE IF id >= s.objs[k].di.size \div DIRENT_SIZE
       THEN [res |-> "EntryNotFound", name |-> NONE]
  ELSE Let(read_direntry(s.dev, s.objs[k].di, id), LAMBDA e :
         [res |-> e.res, name |-> e.name])

(***************************************************************************)
(* SimpleFileSystem                                                        *)
(***************************************************************************)
\* Weak::upgrade of a cache value: the slot of the live object, if any
Upgrade(w) == IF w >= 0 THEN w ELSE NONE

\* for id in remove_ids: the entry is removed, and flushed if what was
\* removed upgrades
RECURSIVE FlushRemoved(_, _)
FlushRemoved(s, ids) ==
  IF ~Ok(s) \/ ids = {} THEN s
  ELSE Let(Min(ids), LAMBDA id :
         FlushRemoved(IF Upgrade(s.inodes[id]) # NONE
                      THEN flush([s EXCEPT !.inodes[id] = NOENT], Upgrade(s.inodes[id]))
                      ELSE [s EXCEPT !.inodes[id] = NOENT],
                      ids \ {id}))

\* remove_ids: the entries whose weak reference does not upgrade
flush_weak_inodes(s) ==
  FlushRemoved(s, {id \in BlockIds : s.inodes[id] # NOENT
                                      /\ Upgrade(s.inodes[id]) = NONE})

\* for inode in self.inodes.values(): sync_all if it upgrades
RECURSIVE SyncLive(_, _)
SyncLive(s, ids) ==
  IF ~Ok(s) \/ ids = {} THEN s
  ELSE Let(Min(ids), LAMBDA id :
         SyncLive(IF Upgrade(s.inodes[id]) # NONE
                  THEN sync_all(s, Upgrade(s.inodes[id])) ELSE s,
                  ids \ {id}))

SuperBlockBuf(s) ==
  [k |-> "super", blocks |-> SbBlocks, unused_blocks |-> s.sb.unused_blocks,
   freemap_blocks |-> FreemapBlocks]

FreemapBuf(s, i) ==
  [k |-> "fm",
   free |-> {b \in 0 .. BLKBITS - 1 : i * BLKBITS + b \in s.fm.free}]

\* if super_block.dirty(): write it, mark it clean
SyncSuper(s) ==
  IF s.sb.dirty
  THEN Then(DeviceWriteAt(s, BLKN_SUPER, SuperBlockBuf(s)), LAMBDA u :
         [u EXCEPT !.sb.dirty = FALSE])
  ELSE s

\* for i in 0..freemap_blocks: write block i of the free map
RECURSIVE WriteFreemap(_, _)
WriteFreemap(s, i) ==
  IF i >= FreemapBlocks THEN s
  ELSE Then(DeviceWriteAt(s, BLKN_FREEMAP + i, FreemapBuf(s, i)), LAMBDA u :
         WriteFreemap(u, i + 1))

\* if free_map.dirty(): write its freemap_blocks blocks, mark it clean
SyncFreemap(s) ==
  IF s.fm.dirty
  THEN Then(WriteFreemap(s, 0), LAMBDA u : [u EXCEPT !.fm.dirty = FALSE])
  ELSE s

sync(s) ==
  Then(SyncSuper(s), LAMBDA a :
  Then(SyncFreemap(a), LAMBDA b :
  Then(flush_weak_inodes(b), LAMBDA u :
  Then(SyncLive(u, {id \in BlockIds : u.inodes[id] # NOENT}), LAMBDA v :
       DeviceSync(v)))))

root_inode(s) == get_inode(s, BLKN_ROOT, FALSE)

\* the fields of a filesystem over a blank (all-zero) device, before the root
Blank ==
  [dev |-> [b \in BlockIds |-> ZeroBlk],
   sb |-> [unused_blocks |-> SbBlocks - BLKN_FREEMAP - FreemapBlocks, dirty |-> TRUE],
   fm |-> [free |-> (BLKN_FREEMAP + FreemapBlocks) .. (SbBlocks - 1), dirty |-> TRUE],
   inodes |-> [i \in BlockIds |-> NOENT],
   objs |-> [k \in Slots |-> NullObj],
   res |-> "Ok", ret |-> NONE, wr |-> 0, rm |-> {}, io |-> NoFaults]

\* SimpleFileSystem::create: the root directory, written back; create's Arc
\* to it is local, so the root object is gone when create returns
SfsCreate ==
  DropTemp(
    Then(new_inode(Blank, BLKN_ROOT, NewDiskINode("Dir"), TRUE, TRUE), LAMBDA r :
    Then(init_direntry(r, 0, BLKN_ROOT), LAMBDA i :
         sync_all(nlinks_inc(nlinks_inc(i, 0), 0), 0))))

\* the bits of block i of the free map as the device holds it
FreemapBits(blk) == IF blk.k = "fm" THEN blk.free ELSE {}

\* SimpleFileSystem::open: the superblock is loaded and checked, the free map
\* is read block by block, the inode cache starts empty
open(s) ==
  IF s.dev[BLKN_SUPER].k # "super" THEN Fail(s, "WrongFs")
  ELSE [dev |-> s.dev,
        sb |-> [unused_blocks |-> s.dev[BLKN_SUPER].unused_blocks,
                dirty |-> FALSE],
        fm |-> [free |-> {id \in 0 .. s.dev[BLKN_SUPER].freemap_blocks * BLKBITS - 1 :
                            id % BLKBITS
                              \in FreemapBits(s.dev[BLKN_FREEMAP + id \div BLKBITS])},
                dirty |-> FALSE],
        inodes |-> [i \in BlockIds |-> NOENT],
        objs |-> [k \in Slots |-> NullObj],
        res |-> "Ok", ret |-> NONE, wr |-> 0, rm |-> {}, io |-> NoFaults]

(***************************************************************************)
(* MountFS (rcore-fs-mountfs) over two SimpleFileSystems, "a" and "b".     *)
(* Its operations take and return a record m: a and b, the two inner       *)
(* filesystems; vfs, the MountFS objects; mountpoints, the table of each;  *)
(* nodes, the MNodes the caller holds; res and ret (an MNode).             *)
(***************************************************************************)
\* an MNode: its MountFS, and its inner inode as (filesystem, slot)
MNode(v, f, k) == [vfs |-> v, fs |-> f, slot |-> k]
NoNode == MNode(NONE, "none", NONE)
NoFs == [inner |-> "none", self_mountpoint |-> NoNode]
MountIds == 1 .. MaxMounts
NodeIds == 1 .. MaxMNodes

\* an inner filesystem between two calls
Norm(s) ==
  [s EXCEPT !.res = "Ok", !.ret = NONE, !.wr = 0, !.rm = {}, !.io = NoFaults]

\* r: what a call on inner filesystem f returned; node: the MNode made of it
Put(m, f, r, node) == [m EXCEPT ![f] = Norm(DropTemp(r)), !.res = r.res, !.ret = node]

\* MountFS::new(fs) for the first filesystem; the second is yet to be mounted
MountFS_new(sa, sb) ==
  [a |-> Norm(sa), b |-> Norm(sb),
   vfs |-> [v \in MountIds |->
             IF v = 1 THEN [inner |-> "a", self_mountpoint |-> NoNode] ELSE NoFs],
   mountpoints |-> [v \in MountIds |-> [i \in BlockIds |-> NONE]],
   nodes |-> [h \in NodeIds |-> NoNode],
   res |-> "Ok", ret |-> NoNode]

\* self.inode.metadata().inode
InodeId(m, n) == m[n.fs].objs[n.slot].id

\* the inner inodes some MNode refers to: the caller's, and the mount points
Refs(m, f) ==
  {m.nodes[h].slot : h \in {h \in NodeIds : m.nodes[h].fs = f}}
  \cup {m.vfs[v].self_mountpoint.slot :
          v \in {v \in MountIds : m.vfs[v].self_mountpoint.fs = f}}

\* the Arcs to every object outside keep are gone
Collect(s, keep) ==
  [s EXCEPT !.objs = [k \in DOMAIN @ |-> IF k \in keep THEN @[k] ELSE NullObj],
            !.inodes = [i \in BlockIds |->
                         IF @[i] >= 0 /\ @[i] \notin keep THEN DEAD ELSE @[i]]]

\* the temporaries of a call are dropped
Sweep(m) ==
  [m EXCEPT !.a = Collect(@, Refs(m, "a")), !.b = Collect(@, Refs(m, "b"))]

\* the caller keeps the MNode a call returned
FreeNodes(m) == {h \in NodeIds : m.nodes[h] = NoNode}
Keep(m) ==
  IF m.res # "Ok" THEN m
  ELSE IF FreeNodes(m) = {} THEN Fail(m, "noslot")
  ELSE [m EXCEPT !.nodes[Min(FreeNodes(m))] = m.ret]

MountFS_root_inode(m, v) ==
  Let(root_inode(m[m.vfs[v].inner]), LAMBDA r :
    Put(m, m.vfs[v].inner, r, MNode(v, m.vfs[v].inner, r.ret)))

\* overlaid_inode, had it never looked at the mount table
overlaid_inode_stays(m, n) == [m EXCEPT !.ret = n]

overlaid_inode(m, n) ==
  IF m.mountpoints[n.vfs][InodeId(m, n)] # NONE
  THEN MountFS_root_inode(m, m.mountpoints[n.vfs][InodeId(m, n)])
  ELSE [m EXCEPT !.ret = n]

\* is_root: ret is the answer
is_root(m, n) ==
  Let(get_inode(m[n.fs], BLKN_ROOT, TRUE), LAMBDA r :
    IF r.res # "Ok" THEN Put(m, n.fs, r, NoNode)
    ELSE Put(m, n.fs, r, r.objs[r.ret].id = InodeId(m, n)))

\* MNode { inode: n.inode.find(name)?, vfs: v }
InnerFind(m, n, v, name) ==
  Let(find(m[n.fs], n.slot, name), LAMBDA r : Put(m, n.fs, r, MNode(v, n.fs, r.ret)))

RECURSIVE MNode_find(_, _, _, _)
MNode_find(m, n, root, name) ==
  IF name \in {NameEmpty, NameDot} THEN [m EXCEPT !.ret = n]
  ELSE IF name = NameDotDot
  THEN IF root THEN [m EXCEPT !.ret = n]
       ELSE Then(is_root(m, n), LAMBDA u :
              IF u.ret
              THEN IF u.vfs[n.vfs].self_mountpoint # NoNode
                   THEN MNode_find(u, u.vfs[n.vfs].self_mountpoint, root, NameDotDot)
                   ELSE [u EXCEPT !.ret = n]
              ELSE InnerFind(u, n, n.vfs, name))
  ELSE Then(overlaid_inode(m, n), LAMBDA o :
       Then(InnerFind(o, o.ret, n.vfs, name), LAMBDA x : overlaid_inode(x, x.ret)))

MNode_create(m, n, name, type) ==
  Let(create2(m[n.fs], n.slot, name, type), LAMBDA r :
    Put(m, n.fs, r, MNode(n.vfs, n.fs, r.ret)))

\* mount(fs): a new MountFS, entered in the table of n's MountFS under n's id
FreeMounts(m) == {v \in MountIds : m.vfs[v].inner = "none"}
mount(m, n, f) ==
  IF FreeMounts(m) = {} THEN Fail(m, "noslot")
  ELSE [m EXCEPT !.vfs[Min(FreeMounts(m))] = [inner |-> f, self_mountpoint |-> n],
                 !.mountpoints[n.vfs][InodeId(m, n)] = Min(FreeMounts(m))]

\* UnlinkUnlessBusy, had it not looked at the mount table
unlink_though_busy(m, n, name, id) ==
  Let(unlink(m[n.fs], n.slot, name), LAMBDA r : Put(m, n.fs, r, NoNode))

\* unlink once the inode named name is known to have id
UnlinkUnlessBusy(m, n, name, id) ==
  IF m.mountpoints[n.vfs][id] # NONE THEN Fail(m, "Busy")
  ELSE Let(unlink(m[n.fs], n.slot, name), LAMBDA r : Put(m, n.fs, r, NoNode))

MNode_unlink(m, n, name) ==
  Then(InnerFind(m, n, n.vfs, name), LAMBDA x :
    UnlinkUnlessBusy(Sweep(x), n, name, InodeId(x, x.ret)))

\* an inode handed to link or move_ that is not an MNode
Bare == MNode(0, "none", 0)

\* INodeImpl::link when other is an INodeImpl of another SimpleFileSystem
link_other_fs(s, k, name) ==
  IF s.objs[k].di.type \notin MetaTypes THEN Panic(s)
  ELSE IF s.objs[k].di.type # "Dir" THEN Fail(s, "NotDir")
  ELSE IF s.objs[k].di.nlinks <= 0 THEN Fail(s, "DirRemoved")
  ELSE Let(get_file_inode_and_entry_id(s, k, name), LAMBDA f :
         IF f.res # "Ok" THEN Fail(s, f.res)
         ELSE IF f.id # NONE THEN Fail(s, "EntryExist")
         ELSE Fail(s, "NotSameFs"))

\* INodeImpl::move_ when target is an INodeImpl of another SimpleFileSystem,
\* of type dtype
move_other_fs(s, k, old_name, dtype) ==
  IF s.objs[k].di.type \notin MetaTypes THEN Panic(s)
  ELSE IF s.objs[k].di.type # "Dir" THEN Fail(s, "NotDir")
  ELSE IF s.objs[k].di.nlinks <= 0 THEN Fail(s, "DirRemoved")
  ELSE IF old_name = NameDot \/ old_name = NameDotDot THEN Fail(s, "IsDir")
  ELSE IF dtype \notin MetaTypes THEN Panic(s)
  ELSE Fail(s, "NotSameFs")

\* MNode::link: other must downcast to an MNode; its inner inode goes to the
\* inner link
MNode_link(m, n, name, o) ==
  IF o = Bare THEN Fail(m, "NotSameFs")
  ELSE Let(IF o.fs = n.fs THEN link(m[n.fs], n.slot, name, o.slot)
           ELSE link_other_fs(m[n.fs], n.slot, name),
           LAMBDA r : Put(m, n.fs, r, NoNode))

\* MNode::move_: target must downcast to an MNode; its inner inode goes to
\* the inner move_
MNode_move(m, n, old_name, t, new_name) ==
  IF t = Bare THEN Fail(m, "NotSameFs")
  ELSE Let(IF t.fs = n.fs THEN move_(m[n.fs], n.slot, old_name, t.slot, new_name)
           ELSE move_other_fs(m[n.fs], n.slot, old_name, m[t.fs].objs[t.slot].di.type),
           LAMBDA r : Put(m, n.fs, r, NoNode))

\* MountFS::sync: the inner filesystem, then every mounted one by key
RECURSIVE MountFS_sync(_, _)
RECURSIVE SyncMounts(_, _, _)
SyncMounts(m, v, keys) ==
  IF m.res # "Ok" \/ keys = {} THEN m
  ELSE SyncMounts(MountFS_sync(m, m.mountpoints[v][Min(keys)]), v, keys \ {Min(keys)})

MountFS_sync(m, v) ==
  Then(Let(sync(m[m.vfs[v].inner]), LAMBDA r : Put(m, m.vfs[v].inner, r, NoNode)),
       LAMBDA u : SyncMounts(u, v, {i \in BlockIds : u.mountpoints[v][i] # NONE}))

(***************************************************************************)
(* The state machine                                                       *)
(***************************************************************************)
Cur ==
  [dev |-> dev, sb |-> super_block, fm |-> free_map, inodes |-> inodes,
   objs |-> objs, res |-> "Ok", ret |-> NONE, wr |-> 0, rm |-> {}, io |-> NoFaults]

\* the objects the caller holds
Live(k) == objs[k].id # NONE
Handles == {k \in 1 .. MaxObjs : Live(k)}
Dirs == {k \in Handles : objs[k].di.type = "Dir"}
Files == {k \in Handles : objs[k].di.type = "File"}

\* the effects of a call, or of a part of it, are the new state
EffectsOf(u, res, l) ==
  /\ halted = "no"
  /\ res # "noslot"
  /\ dev' = u.dev
  /\ super_block' = u.sb
  /\ free_map' = u.fm
  /\ inodes' = u.inodes
  /\ objs' = u.objs
  /\ halted' = IF res \in {"panic", "hang"} THEN res ELSE "no"
  /\ last' = l
  /\ UNCHANGED <<fsb, mount_fs, mountpoints, mnodes, locking, devfs, block_dev>>

\* the call ends
Effects(u, res, l) == EffectsOf(u, res, l) /\ UNCHANGED suspended

\* the call's local Arc is dropped when it ends
Commit(t, l) == Effects(DropTemp(t), t.res, l)

\* one more call of the caller's budget is spent
Spend == budget > 0 /\ budget' = budget - 1 /\ UNCHANGED held

\* a call of which the claims read the name and the result only
Done(op, t) ==
  /\ Spend
  /\ Commit(t, [op |-> op, res |-> t.res])

\* data blocks, indirect table, double-indirect table and its pages of di
PagesOf(di) ==
  IF di.blocks >= MAX_NBLOCK_INDIRECT
  THEN (di.blocks - MAX_NBLOCK_INDIRECT) \div BLK_NENTRY + 1 ELSE 0
NBlocksOf(di) ==
  di.blocks + (IF di.blocks >= MAX_NBLOCK_DIRECT THEN 1 ELSE 0)
            + (IF di.blocks >= MAX_NBLOCK_INDIRECT THEN 1 ELSE 0) + PagesOf(di)

RootInode == Done("root_inode", root_inode(Cur))

Find(k, name) == Live(k) /\ Done("find", find(Cur, k, name))

Create(k, name, type) == Live(k) /\ Done("create", create2(Cur, k, name, type))

WriteAtDone(t, k, offset, buf) ==
  /\ Spend
  /\ Commit(t, [op |-> "write_at", res |-> t.res, k |-> k, offset |-> offset,
                buf |-> buf])

WriteAt(k, offset, buf) ==
  Live(k) /\ WriteAtDone(write_at(Cur, k, offset, buf), k, offset, buf)

ResizeDone(t, k, len) ==
  /\ Spend
  /\ Commit(t, [op |-> "resize", res |-> t.res, k |-> k, len |-> len,
                old |-> objs[k].di.size])

Resize(k, len) == Live(k) /\ ResizeDone(resize(Cur, k, len), k, len)

\* read_at(offset, buf) with len bytes in buf, which nothing was written to:
\* the bytes read are at its beginning
ReadAt(k, offset, len) ==
  /\ Live(k)
  /\ Spend
  /\ Let(read_at(Cur, k, offset, len), LAMBDA r :
       Commit([Cur EXCEPT !.res = r.res],
              [op |-> "read_at", res |-> r.res, k |-> k, offset |-> offset,
               len |-> len, n |-> r.n,
               buf |-> r.data \o [i \in 1 .. len - r.n |-> UNINIT]]))

Link(k, name, o) == Live(k) /\ Live(o) /\ Done("link", link(Cur, k, name, o))

LinkInodeimpl(k, name, o) ==
  Live(k) /\ Live(o) /\ Done("link_inodeimpl", link_inodeimpl(Cur, k, name, o))

\* f: the entry unlinked, looked up before the call
UnlinkDone(t, f) ==
  /\ Spend
  /\ Commit(t, IF t.res = "Ok"
               THEN [op |-> "unlink", res |-> t.res, rm |-> t.rm, id |-> f.id,
                     u0 |-> super_block.unused_blocks]
               ELSE [op |-> "unlink", res |-> t.res, rm |-> t.rm])

Unlink(k, name) ==
  Live(k) /\ UnlinkDone(unlink(Cur, k, name), get_file_inode_and_entry_id(Cur, k, name))

MoveDone(t) ==
  /\ Spend
  /\ Commit(t, [op |-> "move_", res |-> t.res, rm |-> t.rm])

Move(k, old_name, target, new_name) ==
  Live(k) /\ Live(target) /\ MoveDone(move_(Cur, k, old_name, target, new_name))

Flush(k) == Live(k) /\ Done("flush", flush(Cur, k))

\* the caller lets go of its last Arc; Drop for INodeImpl does nothing
Drop(k) ==
  /\ Live(k)
  /\ Spend
  /\ Commit(DropObj(Cur, k),
            [op |-> "drop", res |-> "Ok", id |-> objs[k].id, di |-> objs[k].di,
             dirty |-> objs[k].dirty,
             unl |-> IF last.op = "unlink" /\ last.res = "Ok" /\ last.id = objs[k].id
                     THEN last ELSE [op |-> "none"]])

SyncDone(t) ==
  /\ Spend
  /\ Commit(t, [op |-> "sync", res |-> t.res, wr |-> t.wr,
                prev |-> IF last.op = "drop" THEN last
                         ELSE IF last.op = "sync"
                         THEN [op |-> last.op, res |-> last.res, wr |-> last.wr]
                         ELSE [op |-> last.op, res |-> last.res]])

Sync == SyncDone(sync(Cur))

\* sync on a device whose writes of the blocks of bad fail
SyncOn(bad, how) ==
  /\ Spend
  /\ Let(sync([Cur EXCEPT !.io.bad = bad, !.io.how = how]), LAMBDA t :
       Commit(t, [op |-> "sync", res |-> t.res, wr |-> t.wr,
                  log |-> t.io.log, bad |-> bad]))

AllocBlockDone(t) ==
  /\ Commit(t, [op |-> "alloc_block", res |-> t.res, ret |-> t.ret])
  /\ held' = IF t.res = "Ok" /\ t.ret # NONE
             THEN [held EXCEPT ![t.ret] = @ + 1] ELSE held
  /\ UNCHANGED budget

AllocBlock == AllocBlockDone(alloc_block(Cur))

FreeBlockDone(t, id) ==
  /\ Commit(t, [op |-> "free_block", res |-> t.res, ret |-> id])
  /\ held' = [held EXCEPT ![id] = @ - 1]
  /\ UNCHANGED budget

\* free_block is only called on ids alloc_block returned
FreeBlock(id) == held[id] > 0 /\ FreeBlockDone(free_block(Cur, id), id)

(***************************************************************************)
(* DevFS: directories of devices. A DevINode is known by its inode_id;     *)
(* children is its BTreeMap, a function from the names present.            *)
(***************************************************************************)
\* what add was given: an Arc<dyn INode> of some device
DeviceChild == [kind |-> "dev", id |-> 0]
DirChild(id) == [kind |-> "dir", id |-> id]

\* DevFS::new: the root is the first DevINode, new_inode_id counts from 1
DevFS_new ==
  [next |-> 2,
   children |-> [i \in 1 .. MaxDevNodes |-> [name \in {} |-> DeviceChild]],
   parent |-> [i \in 1 .. MaxDevNodes |-> 0],
   res |-> "Ok", ret |-> 0]

DevINode_add_dir(d, n, name) ==
  IF name \in DOMAIN d.children[n] THEN [d EXCEPT !.res = "EntryExist"]
  ELSE [d EXCEPT !.children[n] = (name :> DirChild(d.next)) @@ @,
                 !.parent[d.next] = n,
                 !.next = @ + 1,
                 !.res = "Ok", !.ret = d.next]

DevINode_add(d, n, name, child) ==
  IF name \in DOMAIN d.children[n] THEN [d EXCEPT !.res = "EntryExist"]
  ELSE [d EXCEPT !.children[n] = (name :> child) @@ @, !.res = "Ok"]

DevINode_remove(d, n, name) ==
  IF name \notin DOMAIN d.children[n] THEN [d EXCEPT !.res = "EntryNotFound"]
  ELSE [d EXCEPT !.children[n] = [x \in DOMAIN @ \ {name} |-> @[x]],
                 !.res = "Ok"]

DevINode_read_at(d, n, offset, len) == [d EXCEPT !.res = "IsDir"]

DevINode_write_at(d, n, offset, buf) == [d EXCEPT !.res = "IsDir"]

DevINode_set_metadata(d, n) == [d EXCEPT !.res = "NotSupported"]

DevINode_resize(d, n, len) == [d EXCEPT !.res = "IsDir"]

DevINode_create(d, n, name, type) == [d EXCEPT !.res = "NotSupported"]

DevINode_link(d, n, name, other) == [d EXCEPT !.res = "NotSupported"]

\* DevINode_unlink, had it done what remove does
DevINode_unlink_removes(d, n, name) ==
  IF name \in DOMAIN d.children[n] THEN DevINode_remove(d, n, name)
  ELSE [d EXCEPT !.res = "NotSupported"]

DevINode_unlink(d, n, name) == [d EXCEPT !.res = "NotSupported"]

DevINode_move(d, n, old_name, target, new_name) ==
  [d EXCEPT !.res = "NotSupported"]

\* find: "." is this.upgrade(), ".." is parent.upgrade() (Weak::default() for
\* the root, which upgrades to nothing), any other name is looked up
DevINode_find(d, n, name) ==
  IF name = NameDot THEN [d EXCEPT !.res = "Ok", !.ret = DirChild(n)]
  ELSE IF name = NameDotDot
  THEN IF d.parent[n] = 0 THEN [d EXCEPT !.res = "EntryNotFound"]
       ELSE [d EXCEPT !.res = "Ok", !.ret = DirChild(d.parent[n])]
  ELSE IF name \in DOMAIN d.children[n]
  THEN [d EXCEPT !.res = "Ok", !.ret = d.children[n][name]]
  ELSE [d EXCEPT !.res = "EntryNotFound"]

\* BTreeMap::keys(): the names in ascending order
RECURSIVE Keys(_)
Keys(names) ==
  IF names = {} THEN <<>> ELSE <<Min(names)>> \o Keys(names \ {Min(names)})

DevINode_get_entry(d, n, id) ==
  IF id = 0 THEN [d EXCEPT !.res = "Ok", !.ret = NameDot]
  ELSE IF id = 1 THEN [d EXCEPT !.res = "Ok", !.ret = NameDotDot]
  ELSE IF id - 2 < Len(Keys(DOMAIN d.children[n]))
  THEN [d EXCEPT !.res = "Ok", !.ret = Keys(DOMAIN d.children[n])[id - 2 + 1]]
  ELSE [d EXCEPT !.res = "EntryNotFound"]

\* metadata().size
DevINode_size(d, n) == Cardinality(DOMAIN d.children[n])

(***************************************************************************)
(* Device over a BlockDevice (dev/mod.rs): reads and writes of bytes done  *)
(* block by block. The BlockDevice is the one of the tests, an array of    *)
(* bytes: a block beyond the array fails, and so does a block of bad, the  *)
(* blocks that fail during the call. Blocks are of BLKSIZE bytes.          *)
(***************************************************************************)
\* blocks of the array
BlkBlocks == 4

BlockDevice_new == [i \in 1 .. BlkBlocks * BLKSIZE |-> i - 1]

\* the local block_buf, which is larger than a block
BlockBuf == [i \in 1 .. BLKSIZE + 1 |-> UNINIT]

BlockDevice_read_at(data, bad, block_id, buf) ==
  IF block_id >= BlkBlocks \/ block_id \in bad THEN Err("DevError")
  ELSE Val([i \in 1 .. Len(buf) |->
             IF i <= BLKSIZE THEN data[block_id * BLKSIZE + i] ELSE buf[i]])

BlockDevice_write_at(data, bad, block_id, buf) ==
  IF block_id >= BlkBlocks \/ block_id \in bad THEN Err("DevError")
  ELSE Val([j \in 1 .. Len(data) |->
             IF j - 1 >= block_id * BLKSIZE /\ j - 1 < (block_id + 1) * BLKSIZE
             THEN buf[j - block_id * BLKSIZE] ELSE data[j]])

origin_begin(range) == range.block * BLKSIZE + range.begin
origin_end(range) == range.block * BLKSIZE + range.end
is_full(range) == range.end - range.begin = BLKSIZE

\* buf with buf[from .. from + Len(src)) replaced by src
CopyFromSlice(buf, from, src) ==
  [i \in 1 .. Len(buf) |->
     IF i - 1 >= from /\ i - 1 < from + Len(src) THEN src[i - from] ELSE buf[i]]

\* the loop of read_at; try0! returns Ok(len) at the first block that fails
RECURSIVE ReadBlocks(_, _, _, _, _)
ReadBlocks(data, bad, offset, ranges, buf) ==
  IF ranges = <<>> THEN [res |-> "Ok", ret |-> Len(buf), buf |-> buf]
  ELSE Let(Head(ranges), LAMBDA range :
    IF is_full(range)
    THEN Let(BlockDevice_read_at(
               data, bad, range.block,
               SubSeq(buf, origin_begin(range) - offset + 1,
                      origin_end(range) - offset)),
             LAMBDA r :
               IF r.res # "Ok"
               THEN [res |-> "Ok", ret |-> origin_begin(range) - offset,
                     buf |-> buf]
               ELSE ReadBlocks(data, bad, offset, Tail(ranges),
                      CopyFromSlice(buf, origin_begin(range) - offset, r.v)))
    ELSE Let(BlockDevice_read_at(data, bad, range.block,
                                 SubSeq(BlockBuf, 1, BLKSIZE)),
             LAMBDA r :
               IF r.res # "Ok"
               THEN [res |-> "Ok", ret |-> origin_begin(range) - offset,
                     buf |-> buf]
               ELSE ReadBlocks(data, bad, offset, Tail(ranges),
                      CopyFromSlice(buf, origin_begin(range) - offset,
                                    SubSeq(r.v, range.begin + 1, range.end)))))

\* Device_read_at, had it returned the error of the block
Device_read_at_err(data, bad, offset, buf) ==
  Let(ReadBlocks(data, bad, offset, BlockIter(offset, offset + Len(buf)), buf),
      LAMBDA r : IF r.ret < Len(buf) THEN [r EXCEPT !.res = "DevError"] ELSE r)

Device_read_at(data, bad, offset, buf) ==
  ReadBlocks(data, bad, offset, BlockIter(offset, offset + Len(buf)), buf)

\* the loop of write_at: a block covered in part is read, changed and
\* written back
RECURSIVE WriteBlocks(_, _, _, _, _)
WriteBlocks(data, bad, offset, ranges, buf) ==
  IF ranges = <<>> THEN [res |-> "Ok", ret |-> Len(buf), data |-> data]
  ELSE Let(Head(ranges), LAMBDA range :
    IF is_full(range)
    THEN Let(BlockDevice_write_at(
               data, bad, range.block,
               SubSeq(buf, origin_begin(range) - offset + 1,
                      origin_end(range) - offset)),
             LAMBDA w :
               IF w.res # "Ok"
               THEN [res |-> "Ok", ret |-> origin_begin(range) - offset,
                     data |-> data]
               ELSE WriteBlocks(w.v, bad, offset, Tail(ranges), buf))
    ELSE Let(BlockDevice_read_at(data, bad, range.block, BlockBuf),
             LAMBDA r :
               IF r.res # "Ok"
               THEN [res |-> "Ok", ret |-> origin_begin(range) - offset,
                     data |-> data]
               ELSE Let(BlockDevice_write_at(
                          data, bad, range.block,
                          CopyFromSlice(r.v, range.begin,
                            SubSeq(buf, origin_begin(range) - offset + 1,
                                   origin_end(range) - offset))),
                        LAMBDA w :
                          IF w.res # "Ok"
                          THEN [res |-> "Ok",
                                ret |-> origin_begin(range) - offset,
                                data |-> data]
                          ELSE WriteBlocks(w.v, bad, offset, Tail(ranges),
                                           buf))))

\* Device_write_at, had it gone on past the blocks that fail
Device_write_at_past_failure(data, bad, offset, buf) ==
  WriteBlocks(data, {}, offset, BlockIter(offset, offset + Len(buf)), buf)

Device_write_at(data, bad, offset, buf) ==
  WriteBlocks(data, bad, offset, BlockIter(offset, offset + Len(buf)), buf)

(***************************************************************************)
(* Locks: a call as the sequence of lock operations its code performs.     *)
(* All locks are spin::RwLock: read() spins while a writer holds the lock, *)
(* write() spins while anyone does.                                        *)
(***************************************************************************)
FreeMapLock == <<"free_map", "fs">>
SuperBlockLock == <<"super_block", "fs">>
InodesLock == <<"inodes", "fs">>
DiskInodeLock(i) == <<"disk_inode", i>>

Acq(l, m) == <<[e |-> "acq", lock |-> l, mode |-> m]>>
Rel(l) == <<[e |-> "rel", lock |-> l, mode |-> "-"]>>

\* a guard that is a temporary: taken and dropped within one statement
Guard(l, m) == Acq(l, m) \o Rel(l)

RECURSIVE Times(_, _)
Times(n, p) == IF n <= 0 THEN <<>> ELSE p \o Times(n - 1, p)

alloc_block_locks ==
  Acq(FreeMapLock, "w") \o Acq(SuperBlockLock, "w")
    \o Rel(SuperBlockLock) \o Rel(FreeMapLock)

free_block_locks ==
  Acq(FreeMapLock, "w") \o Guard(SuperBlockLock, "w") \o Rel(FreeMapLock)

get_disk_block_id_locks(i) == Guard(DiskInodeLock(i), "r")

set_disk_block_id_locks(i, file_block_id) ==
  Guard(DiskInodeLock(i), "r")
    \o Guard(DiskInodeLock(i),
             IF file_block_id < MAX_NBLOCK_DIRECT THEN "w" ELSE "r")

\* _read_at, _write_at and _clean_at: the size, then each block's id
RangeLocks(i, size, begin, end) ==
  Guard(DiskInodeLock(i), "r")
    \o Times(Len(BlockIter(MinOf(size, begin), MinOf(size, end))),
             get_disk_block_id_locks(i))

indirect_begin(blocks) ==
  IF blocks < MAX_NBLOCK_INDIRECT THEN 0
  ELSE (blocks - MAX_NBLOCK_INDIRECT) \div BLK_NENTRY + 1

indirect_end(blocks) == (blocks - MAX_NBLOCK_INDIRECT) \div BLK_NENTRY + 1

RECURSIVE GrowLocks(_, _, _)
GrowLocks(i, from, to) ==
  IF from >= to THEN <<>>
  ELSE alloc_block_locks \o set_disk_block_id_locks(i, from)
         \o GrowLocks(i, from + 1, to)

ResizeGreaterLocks(i, size, len, blocks, old_blocks) ==
  Acq(DiskInodeLock(i), "w")
    \o (IF old_blocks < MAX_NBLOCK_DIRECT /\ blocks >= MAX_NBLOCK_DIRECT
        THEN alloc_block_locks ELSE <<>>)
    \o (IF blocks >= MAX_NBLOCK_INDIRECT
        THEN (IF old_blocks < MAX_NBLOCK_INDIRECT
              THEN alloc_block_locks ELSE <<>>)
               \o Times(indirect_end(blocks) - indirect_begin(old_blocks),
                        alloc_block_locks)
        ELSE <<>>)
    \o Rel(DiskInodeLock(i))
    \o GrowLocks(i, old_blocks, blocks)
    \o Guard(DiskInodeLock(i), "w")
    \o RangeLocks(i, len, size, len)

ResizeLessLocks(i, blocks, old_blocks) ==
  Times(old_blocks - blocks, get_disk_block_id_locks(i) \o free_block_locks)
    \o Acq(DiskInodeLock(i), "w")
    \o (IF blocks < MAX_NBLOCK_DIRECT /\ old_blocks >= MAX_NBLOCK_DIRECT
        THEN free_block_locks ELSE <<>>)
    \o (IF old_blocks >= MAX_NBLOCK_INDIRECT
        THEN Times(indirect_end(old_blocks) - indirect_begin(blocks),
                   free_block_locks)
               \o (IF blocks < MAX_NBLOCK_INDIRECT
                   THEN free_block_locks ELSE <<>>)
        ELSE <<>>)
    \o Rel(DiskInodeLock(i))

ResizeToLocks(i, size, len, blocks, old_blocks) ==
  Guard(DiskInodeLock(i), "r")
    \o (IF blocks = old_blocks THEN Guard(DiskInodeLock(i), "w")
        ELSE IF blocks > old_blocks
        THEN ResizeGreaterLocks(i, size, len, blocks, old_blocks)
        ELSE ResizeLessLocks(i, blocks, old_blocks))

_resize_locks(i, size, len) ==
  ResizeToLocks(i, size, len, (len + BLKSIZE - 1) \div BLKSIZE,
                (size + BLKSIZE - 1) \div BLKSIZE)

resize_locks(i, size, len) ==
  Guard(DiskInodeLock(i), "r") \o _resize_locks(i, size, len)

\* write_at(0, buf) with len bytes in buf
write_at_locks(i, size, len) ==
  Guard(DiskInodeLock(i), "r")
    \o (IF size < len THEN _resize_locks(i, size, len) ELSE <<>>)
    \o RangeLocks(i, IF size < len THEN len ELSE size, 0, len)

read_direntry_locks(i, size, id) ==
  RangeLocks(i, size, DIRENT_SIZE * id, DIRENT_SIZE * id + DIRENT_SIZE)

RECURSIVE ScanLocks(_, _, _, _)
ScanLocks(i, size, id, count) ==
  IF id >= count THEN <<>>
  ELSE read_direntry_locks(i, size, id) \o ScanLocks(i, size, id + 1, count)

\* the guard of the loop's range lives as long as the loop
get_file_inode_and_entry_id_locks(i, size, count) ==
  Acq(DiskInodeLock(i), "r") \o ScanLocks(i, size, 0, count)
    \o Rel(DiskInodeLock(i))

get_inode_locks == Guard(FreeMapLock, "r") \o Guard(InodesLock, "r")

write_direntry_locks(i, size, id) ==
  RangeLocks(i, size, DIRENT_SIZE * id, DIRENT_SIZE * id + DIRENT_SIZE)

remove_direntry_locks(i, size, id) ==
  Guard(DiskInodeLock(i), "r")
    \o read_direntry_locks(i, size, size \div DIRENT_SIZE - 1)
    \o write_direntry_locks(i, size, id)
    \o _resize_locks(i, size, size - DIRENT_SIZE)

\* unlink(name) on the directory d of that size, name being its last entry
\* if it has more than "." and "..", and absent otherwise; the entry is a
\* link to the file f
unlink_locks(d, size, f) ==
  Guard(DiskInodeLock(d), "r")
    \o get_file_inode_and_entry_id_locks(d, size, size \div DIRENT_SIZE)
    \o (IF size \div DIRENT_SIZE <= 2 THEN <<>>
        ELSE get_inode_locks
               \o Guard(DiskInodeLock(f), "r")
               \o Guard(DiskInodeLock(f), "w")
               \o remove_direntry_locks(d, size, size \div DIRENT_SIZE - 1))

sync_all_locks(i) == Guard(DiskInodeLock(i), "w")

\* link_inodeimpl(name, f) on the directory d of that size, name absent:
\* the guard taken before _resize lives to the end of the function
link_inodeimpl_locks(d, size, f) ==
  Guard(DiskInodeLock(d), "r")
    \o get_file_inode_and_entry_id_locks(d, size, size \div DIRENT_SIZE)
    \o Guard(DiskInodeLock(f), "r")
    \o Acq(DiskInodeLock(d), "w")
    \o _resize_locks(d, size, size + BLKSIZE)
    \o RangeLocks(d, size + BLKSIZE, size, size + DIRENT_SIZE)
    \o Guard(DiskInodeLock(f), "w")
    \o Rel(DiskInodeLock(d))

\* sync with the inodes d and f live
sync_locks(d, f) ==
  Acq(FreeMapLock, "w") \o Acq(SuperBlockLock, "w")
    \o Guard(InodesLock, "w")
    \o Acq(InodesLock, "r") \o sync_all_locks(d) \o sync_all_locks(f)
    \o Rel(InodesLock)
    \o Rel(SuperBlockLock) \o Rel(FreeMapLock)

Tasks == {"syncer", "mutator"}
\* a task that is not in the middle of a call
NoCall == [op |-> "none"]
Idle == [op |-> "none", i |-> "none", size |-> 0, prog |-> <<>>, held |-> <<>>]

\* the root directory holds ".", ".." and three links to an empty file
LockInit ==
  [task |-> [t \in Tasks |-> Idle],
   size |-> [i \in {"root", "file"} |->
               IF i = "root" THEN 5 * DIRENT_SIZE ELSE 0]]

InitFrom(s, ops) ==
  /\ dev = s.dev
  /\ super_block = s.sb
  /\ free_map = s.fm
  /\ inodes = s.inodes
  /\ objs = s.objs
  /\ halted = "no"
  /\ last = [op |-> "create_fs", res |-> s.res]
  /\ held = [id \in 0 .. NBits - 1 |-> 0]
  /\ budget = ops
  /\ fsb = MountFS_new(s, SfsCreate).b
  /\ mount_fs = MountFS_new(s, SfsCreate).vfs
  /\ mountpoints = MountFS_new(s, SfsCreate).mountpoints
  /\ mnodes = MountFS_new(s, SfsCreate).nodes
  /\ locking = LockInit
  /\ devfs = DevFS_new
  /\ block_dev = BlockDevice_new
  /\ suspended = [t \in Tasks |-> NoCall]

(***************************************************************************)
(* The calls of a caller of MountFS                                        *)
(***************************************************************************)
MCur ==
  [a |-> Cur, b |-> fsb, vfs |-> mount_fs, mountpoints |-> mountpoints,
   nodes |-> mnodes, res |-> "Ok", ret |-> NoNode]

\* the call ends: its temporaries are dropped, its effects are the new state
MountEffects(t, op) ==
  /\ halted = "no"
  /\ t.res # "noslot"
  /\ dev' = t.a.dev
  /\ super_block' = t.a.sb
  /\ free_map' = t.a.fm
  /\ inodes' = t.a.inodes
  /\ objs' = t.a.objs
  /\ fsb' = t.b
  /\ mount_fs' = t.vfs
  /\ mountpoints' = t.mountpoints
  /\ mnodes' = t.nodes
  /\ halted' = IF t.res \in {"panic", "hang"} THEN t.res ELSE "no"
  /\ last' = [op |-> op, res |-> t.res]
  /\ UNCHANGED <<locking, devfs, block_dev, suspended>>

MountDone(t, op) == Spend /\ MountEffects(Sweep(t), op)

MNodes == {h \in NodeIds : mnodes[h] # NoNode}
Mounts == {v \in MountIds : mount_fs[v].inner # "none"}

MountRootInode(v) ==
  MountDone(Keep(MountFS_root_inode(MCur, v)), "MountFS::root_inode")

MountFind(h, name) ==
  MountDone(Keep(MNode_find(MCur, mnodes[h], FALSE, name)), "MNode::find")

MountCreate(h, name, type) ==
  MountDone(Keep(MNode_create(MCur, mnodes[h], name, type)), "MNode::create")

\* the caller keeps the Arc<MountFS> that mount returns
Mount(h, f) == MountDone(mount(MCur, mnodes[h], f), "MNode::mount")

MountUnlink(h, name) == MountDone(MNode_unlink(MCur, mnodes[h], name), "MNode::unlink")

MountSync == MountDone(MountFS_sync(MCur, 1), "MountFS::sync")

MountLink(h, name, o) == MountDone(MNode_link(MCur, mnodes[h], name, o), "MNode::link")

MountMove(h, old_name, t, new_name) ==
  MountDone(MNode_move(MCur, mnodes[h], old_name, t, new_name), "MNode::move_")

\* the inodes a caller can hand to link and move_
Others == {mnodes[h] : h \in MNodes} \cup {Bare}

\* the caller lets go of an MNode
MountDrop(h) == MountDone([MCur EXCEPT !.nodes[h] = NoNode], "drop")

\* names of the callers: two besides "." and ".."
NameA == NameDotDot + 1
NameB == NameA + 1
Names == {NameA, NameB}
AllNames == {NameDot, NameDotDot} \cup Names

\* buffers of n bytes of value v
Buf(n, v) == [i \in 1 .. n |-> v]

(***************************************************************************)
(* SpecAlloc: the block allocator alone                                    *)
(***************************************************************************)
InitAlloc == InitFrom(SfsCreate, 0)

NextAlloc ==
  \/ AllocBlock
  \/ \E id \in 0 .. NBits - 1 : FreeBlock(id)

SpecAlloc == InitAlloc /\ [][NextAlloc]_vars

(***************************************************************************)
(* SpecFile: files of the root directory, written and resized              *)
(***************************************************************************)
\* calls in a run of SpecFile
OpsFile == 7

InitFile == InitFrom(SfsCreate, OpsFile)

FileBufs == {Buf(2, 1), Buf(5, 2), Buf(13, 1)}
FileLens == {0, 1, 3, 11}

NextFile ==
  \/ RootInode
  \/ \E k \in Handles, name \in Names : Create(k, name, "File")
  \/ \E k \in Handles, buf \in FileBufs : WriteAt(k, 0, buf)
  \/ \E k \in Handles, len \in FileLens : Resize(k, len)

SpecFile == InitFile /\ [][NextFile]_vars

(***************************************************************************)
(* SpecDir: directories under create, unlink and move_ (a rename to any    *)
(* name, or a move to another directory under the same name); handles are  *)
(* got by root_inode and find and let go of by drop                        *)
(***************************************************************************)
\* calls in a run of SpecDir
OpsDir == 6

InitDir == InitFrom(SfsCreate, OpsDir)

NextDir ==
  \/ RootInode
  \/ \E k \in Dirs, type \in {"File", "Dir"} : Create(k, NameA, type)
  \/ \E k \in Dirs, name \in Names : Unlink(k, name)
  \/ \E k \in Dirs, old \in Names, new \in AllNames : Move(k, old, k, new)
  \/ \E k \in Dirs : \E target \in Dirs \ {k}, name \in Names :
       Move(k, name, target, name)
  \/ \E k \in Dirs : Find(k, NameA)
  \/ \E k \in Handles : Drop(k)

SpecDir == InitDir /\ [][NextDir]_vars

\* files and directories of two names, linked, unlinked and moved onto one
\* another's names; every inode stays in the caller's hands
OpsLinks == 4

InitLinks == InitFrom(SfsCreate, OpsLinks)

NextLinks ==
  \/ RootInode
  \/ \E k \in Dirs, name \in Names, type \in {"File", "Dir"} :
       Create(k, name, type)
  \/ \E k \in Dirs, name \in Names, o \in Handles : Link(k, name, o)
  \/ \E k \in Dirs, name \in Names : Unlink(k, name)
  \/ \E k \in Dirs, old \in Names, target \in Dirs, new \in Names :
       Move(k, old, target, new)

SpecLinks == InitLinks /\ [][NextLinks]_vars

\* writes at several offsets into files and symbolic links
OpsWrite == 5

InitWrite == InitFrom(SfsCreate, OpsWrite)

NextWrite ==
  \/ RootInode
  \/ \E k \in Dirs, type \in {"File", "SymLink"} : Create(k, NameA, type)
  \/ \E k \in Handles, offset \in {0, 1, 4}, buf \in {Buf(2, 1), Buf(13, 2)} :
       WriteAt(k, offset, buf)
  \/ \E k \in Handles : Resize(k, 1)

SpecWrite == InitWrite /\ [][NextWrite]_vars

\* create and move_ alone, with every pair of names
OpsMove == 4

InitMove == InitFrom(SfsCreate, OpsMove)

NextMove ==
  \/ RootInode
  \/ \E k \in Dirs, name \in Names, type \in {"File", "Dir"} : Create(k, name, type)
  \/ \E k \in Dirs, old \in Names, target \in Dirs, new \in AllNames :
       Move(k, old, target, new)

SpecMove == InitMove /\ [][NextMove]_vars

\* one file resized to lengths on both sides of the block-table thresholds
OpsGrow == 5

InitGrow == InitFrom(SfsCreate, OpsGrow)

GrowLens ==
  {0, BLKSIZE, MAX_NBLOCK_INDIRECT * BLKSIZE, MAX_NBLOCK_INDIRECT * BLKSIZE + 1,
   (MAX_NBLOCK_INDIRECT + BLK_NENTRY) * BLKSIZE,
   (MAX_NBLOCK_INDIRECT + BLK_NENTRY) * BLKSIZE + 1}

NextGrow ==
  \/ RootInode
  \/ \E k \in Dirs, name \in Names : Create(k, name, "File")
  \/ \E k \in Files, len \in GrowLens : Resize(k, len)

SpecGrow == InitGrow /\ [][NextGrow]_vars

\* a file that was written into the double-indirect range and synced, then
\* emptied, let go of and found again; and a second file
OpsStale == 5

\* root = fs.root_inode(); f = root.create("a", File);
\* f.write_at(0, 13 bytes); fs.sync()
WrittenAndSynced ==
  Let(root_inode(SfsCreate), LAMBDA r :
  Let(create2(Norm(DropTemp(r)), r.ret, NameA, "File"), LAMBDA c :
  Let(write_at(Norm(DropTemp(c)), c.ret, 0,
               Buf((MAX_NBLOCK_INDIRECT + 1) * BLKSIZE - 2, 1)), LAMBDA w :
      Norm(DropTemp(sync(Norm(DropTemp(w))))))))

InitStale == InitFrom(WrittenAndSynced, OpsStale)

NextStale ==
  \/ \E k \in Files, len \in {0, BLKSIZE} : Resize(k, len)
  \/ \E k \in Files : Drop(k)
  \/ \E k \in Dirs, name \in Names : Find(k, name)
  \/ \E k \in Dirs : Create(k, NameB, "File")

SpecStale == InitStale /\ [][NextStale]_vars

\* the same file, read at offsets inside it, at its end and past it
OpsRead == 5

InitRead == InitFrom(WrittenAndSynced, OpsRead)

ReadOffsets == {0, 2, (MAX_NBLOCK_INDIRECT + 1) * BLKSIZE - 3,
                (MAX_NBLOCK_INDIRECT + 1) * BLKSIZE - 2,
                (MAX_NBLOCK_INDIRECT + 1) * BLKSIZE}
ReadLens == {0, 1, BLKSIZE + 1}

NextRead ==
  \/ \E k \in Files, offset \in ReadOffsets, len \in ReadLens :
       ReadAt(k, offset, len)
  \/ \E k \in Files, len \in {0, BLKSIZE} : Resize(k, len)
  \/ \E k \in Files : Drop(k)
  \/ \E k \in Dirs : Find(k, NameA)

SpecRead == InitRead /\ [][NextRead]_vars

\* sync after create and drop, on a device that may fail to write a block
OpsSync == 4

InitSync == InitFrom(SfsCreate, OpsSync)

NextSync ==
  \/ RootInode
  \/ \E k \in Dirs, type \in {"File", "Dir"} : Create(k, NameA, type)
  \/ \E k \in Handles : Drop(k)
  \/ \E bad \in {{}, {BLKN_SUPER}, {BLKN_FREEMAP}, {BLKN_ROOT}},
        how \in {"err", "short"} : SyncOn(bad, how)

SpecSync == InitSync /\ [][NextSync]_vars

(***************************************************************************)
(* Spec: every operation of the filesystem                                 *)
(***************************************************************************)
\* calls in a run of Spec
Ops == 5

Init == InitFrom(SfsCreate, Ops)

Next ==
  \/ RootInode
  \/ \E k \in Dirs, name \in Names, type \in {"File", "Dir"} : Create(k, name, type)
  \/ \E k \in Files : WriteAt(k, 0, Buf(4, 1))
  \/ \E k \in Files, len \in {0, 1} : Resize(k, len)
  \/ \E k \in Dirs, name \in Names, o \in Handles : Link(k, name, o)
  \/ \E k \in Dirs, name \in Names, o \in Handles : LinkInodeimpl(k, name, o)
  \/ \E k \in Dirs, name \in Names : Unlink(k, name)
  \/ \E k \in Dirs, old \in Names, target \in Dirs, new \in AllNames :
       Move(k, old, target, new)
  \/ \E k \in Dirs, name \in Names : Find(k, name)
  \/ \E k \in Handles : Flush(k)
  \/ \E k \in Handles : Drop(k)
  \/ Sync

Spec == Init /\ [][Next]_vars

(***************************************************************************)
(* SpecOwn: the operations that allocate, reference and free blocks       *)
(***************************************************************************)
\* calls in a run of SpecOwn
OpsOwn == 5

InitOwn == InitFrom(SfsCreate, OpsOwn)

NextOwn ==
  \/ RootInode
  \/ \E k \in Dirs, name \in Names, type \in {"File", "Dir"} : Create(k, name, type)
  \/ \E k \in Files : WriteAt(k, 0, Buf(4, 1))
  \/ \E k \in Files, len \in {0, 1} : Resize(k, len)
  \/ \E k \in Dirs, name \in Names, o \in Handles : Link(k, name, o)
  \/ \E k \in Dirs, name \in Names : Unlink(k, name)
  \/ \E k \in Dirs, old \in Names, target \in Dirs, new \in Names :
       Move(k, old, target, new)
  \/ \E k \in Handles : Flush(k)
  \/ Sync

SpecOwn == InitOwn /\ [][NextOwn]_vars

(***************************************************************************)
(* SpecMount: a MountFS over the first filesystem, the second to mount     *)
(***************************************************************************)
\* calls in a run of SpecMount
OpsMount == 6

InitMount == InitFrom(SfsCreate, OpsMount)

NextMount ==
  \/ \E v \in Mounts : MountRootInode(v)
  \/ \E h \in MNodes, name \in Names \cup {NameDotDot} : MountFind(h, name)
  \/ \E h \in MNodes, name \in Names : MountCreate(h, name, "Dir")
  \/ \E h \in MNodes : Mount(h, "b")
  \/ \E h \in MNodes, name \in Names : MountUnlink(h, name)
  \/ MountSync
  \/ \E h \in MNodes : MountDrop(h)

SpecMount == InitMount /\ [][NextMount]_vars

(***************************************************************************)
(* SpecMountLink: link and move_ between the nodes of the MountFS tree     *)
(***************************************************************************)
\* calls in a run of SpecMountLink
OpsMountLink == 5

InitMountLink == InitFrom(SfsCreate, OpsMountLink)

NextMountLink ==
  \/ \E v \in Mounts : MountRootInode(v)
  \/ \E h \in MNodes, type \in {"File", "Dir"} : MountCreate(h, NameA, type)
  \/ \E h \in MNodes : Mount(h, "b")
  \/ \E h \in MNodes, name \in AllNames, o \in Others : MountLink(h, name, o)
  \/ \E h \in MNodes, old \in Names, t \in Others, new \in Names :
       MountMove(h, old, t, new)
  \/ \E h \in MNodes : MountDrop(h)

SpecMountLink == InitMountLink /\ [][NextMountLink]_vars

(***************************************************************************)
(* SpecMountUp: directories made, moved into one another and mounted on,   *)
(* and find from the nodes held                                            *)
(***************************************************************************)
OpsMountUp == 7

InitMountUp == InitFrom(SfsCreate, OpsMountUp)

MountFindRoot(h, name) ==
  MountDone(Keep(MNode_find(MCur, mnodes[h], TRUE, name)), "MNode::find")

NextMountUp ==
  \/ \E v \in Mounts : MountRootInode(v)
  \/ \E h \in MNodes, name \in Names : MountCreate(h, name, "Dir")
  \/ \E h \in MNodes, t \in MNodes : MountMove(h, NameB, mnodes[t], NameB)
  \/ \E h \in MNodes : Mount(h, "b")
  \/ \E h \in MNodes : MountFind(h, NameDotDot)
  \/ \E h \in MNodes : MountFindRoot(h, NameDotDot)
  \/ \E h \in MNodes : MountDrop(h)

SpecMountUp == InitMountUp /\ [][NextMountUp]_vars

(***************************************************************************)
(* SpecMountFind: mount and find, over directories made with create        *)
(***************************************************************************)
\* calls in a run of SpecMountFind
OpsMountFind == 7

InitMountFind == InitFrom(SfsCreate, OpsMountFind)

NextMountFind ==
  \/ \E v \in Mounts : MountRootInode(v)
  \/ \E h \in MNodes, name \in {NameA, NameDotDot} : MountFind(h, name)
  \/ \E h \in MNodes : MountCreate(h, NameA, "Dir")
  \/ \E h \in MNodes : Mount(h, "b")
  \/ \E h \in MNodes : MountDrop(h)

SpecMountFind == InitMountFind /\ [][NextMountFind]_vars

\* sync in one task, resize, write_at and unlink in another, interleaved
\* lock operation by lock operation
HeldBy(t) ==
  {locking.task[t].held[j] : j \in 1 .. Len(locking.task[t].held)}

HoldsLock(t, l) == \E h \in HeldBy(t) : h[1] = l

CanAcquire(ev) ==
  IF ev.mode = "w" THEN \A u \in Tasks : ~HoldsLock(u, ev.lock)
  ELSE \A u \in Tasks : <<ev.lock, "w">> \notin HeldBy(u)

LockStep(new) ==
  /\ halted = "no"
  /\ locking' = new
  /\ UNCHANGED <<dev, super_block, free_map, inodes, objs, halted, last, held,
                 budget, fsb, mount_fs, mountpoints, mnodes, devfs, block_dev,
                 suspended>>

Start(t, op, i, size, prog) ==
  /\ locking.task[t] = Idle
  /\ LockStep([locking EXCEPT !.task[t] =
                 [op |-> op, i |-> i, size |-> size, prog |-> prog,
                  held |-> <<>>]])

StartSync == Start("syncer", "sync", "none", 0, sync_locks("root", "file"))

StartResize(len) ==
  Start("mutator", "resize", "file", len,
        resize_locks("file", locking.size["file"], len))

StartWriteAt(len) ==
  Start("mutator", "write_at", "file",
        IF locking.size["file"] < len THEN len ELSE locking.size["file"],
        write_at_locks("file", locking.size["file"], len))

StartUnlink ==
  Start("mutator", "unlink", "root",
        IF locking.size["root"] \div DIRENT_SIZE <= 2 THEN locking.size["root"]
        ELSE locking.size["root"] - DIRENT_SIZE,
        unlink_locks("root", locking.size["root"], "file"))

NextAcq(t) ==
  locking.task[t].prog # <<>> /\ Head(locking.task[t].prog).e = "acq"

Acquire(t) ==
  /\ NextAcq(t)
  /\ CanAcquire(Head(locking.task[t].prog))
  /\ LockStep([locking EXCEPT
                 !.task[t].held =
                    Append(@, <<Head(locking.task[t].prog).lock,
                                Head(locking.task[t].prog).mode>>),
                 !.task[t].prog = Tail(@)])

Release(t) ==
  /\ locking.task[t].prog # <<>>
  /\ Head(locking.task[t].prog).e = "rel"
  /\ LockStep([locking EXCEPT
                 !.task[t].held = SubSeq(@, 1, Len(@) - 1),
                 !.task[t].prog = Tail(@)])

Return(t) ==
  /\ locking.task[t].op # "none"
  /\ locking.task[t].prog = <<>>
  /\ LockStep([task |-> [locking.task EXCEPT ![t] = Idle],
               size |-> [i \in DOMAIN locking.size |->
                           IF i = locking.task[t].i THEN locking.task[t].size
                           ELSE locking.size[i]]])

\* sizes of no, one and five blocks
LockLens == {0, BLKSIZE, MAX_NBLOCK_INDIRECT * BLKSIZE + 1}

InitLock == InitFrom(SfsCreate, 0)

NextLock ==
  \/ StartSync
  \/ \E len \in LockLens : StartResize(len)
  \/ StartWriteAt(BLKSIZE)
  \/ StartUnlink
  \/ \E t \in Tasks : Acquire(t)
  \/ \E t \in Tasks : Release(t)
  \/ \E t \in Tasks : Return(t)

SpecLock == InitLock /\ [][NextLock]_vars

\* one call at a time, no other task running
AllIdle == \A t \in Tasks : locking.task[t] = Idle

StartLinkInodeimpl ==
  Start("mutator", "link_inodeimpl", "root", locking.size["root"] + BLKSIZE,
        link_inodeimpl_locks("root", locking.size["root"], "file"))

InitAlone == InitFrom(SfsCreate, 0)

NextAlone ==
  \/ AllIdle /\ StartSync
  \/ \E len \in LockLens : AllIdle /\ StartResize(len)
  \/ AllIdle /\ StartWriteAt(BLKSIZE)
  \/ AllIdle /\ StartUnlink
  \/ AllIdle /\ StartLinkInodeimpl
  \/ \E t \in Tasks : Acquire(t)
  \/ \E t \in Tasks : Release(t)
  \/ \E t \in Tasks : Return(t)

SpecAlone == InitAlone /\ [][NextAlone]_vars

\* a DevFS, its directories reached through add_dir
DevNodes == 1 .. devfs.next - 1

DevDone(op, t, n, name) ==
  /\ halted = "no"
  /\ Spend
  /\ devfs' = [t EXCEPT !.res = "Ok", !.ret = 0]
  /\ last' = [op |-> op, res |-> t.res, n |-> n, name |-> name, ret |-> t.ret]
  /\ UNCHANGED <<dev, super_block, free_map, inodes, objs, halted,
                 fsb, mount_fs, mountpoints, mnodes, locking, block_dev,
                 suspended>>

DevAddDir(n, name) ==
  devfs.next <= MaxDevNodes
    /\ DevDone("add_dir", DevINode_add_dir(devfs, n, name), n, name)

DevAdd(n, name) ==
  DevDone("add", DevINode_add(devfs, n, name, DeviceChild), n, name)

DevRemove(n, name) ==
  DevDone("remove", DevINode_remove(devfs, n, name), n, name)

DevReadAt(n, offset, len) ==
  DevDone("DevINode::read_at", DevINode_read_at(devfs, n, offset, len), n, NONE)

DevWriteAt(n, offset, buf) ==
  DevDone("DevINode::write_at", DevINode_write_at(devfs, n, offset, buf), n, NONE)

DevSetMetadata(n) ==
  DevDone("DevINode::set_metadata", DevINode_set_metadata(devfs, n), n, NONE)

DevResize(n, len) ==
  DevDone("DevINode::resize", DevINode_resize(devfs, n, len), n, NONE)

DevCreate(n, name, type) ==
  DevDone("DevINode::create", DevINode_create(devfs, n, name, type), n, name)

DevLink(n, name, other) ==
  DevDone("DevINode::link", DevINode_link(devfs, n, name, other), n, name)

DevUnlink(n, name) ==
  DevDone("DevINode::unlink", DevINode_unlink(devfs, n, name), n, name)

DevMove(n, old_name, target, new_name) ==
  DevDone("DevINode::move_",
          DevINode_move(devfs, n, old_name, target, new_name), n, old_name)

DevFind(n, name) ==
  DevDone("DevINode::find", DevINode_find(devfs, n, name), n, name)

DevGetEntry(n, id) ==
  DevDone("DevINode::get_entry", DevINode_get_entry(devfs, n, id), n, NONE)

OpsDev == 4

InitDev == InitFrom(SfsCreate, OpsDev)

NextDev ==
  \/ \E n \in DevNodes, name \in Names : DevAddDir(n, name)
  \/ \E n \in DevNodes, name \in Names : DevAdd(n, name)
  \/ \E n \in DevNodes, name \in Names : DevRemove(n, name)
  \/ \E n \in DevNodes, offset \in {0, 1} : DevReadAt(n, offset, 2)
  \/ \E n \in DevNodes, buf \in {Buf(0, 1), Buf(2, 1)} : DevWriteAt(n, 0, buf)
  \/ \E n \in DevNodes : DevSetMetadata(n)
  \/ \E n \in DevNodes, len \in {0, 2} : DevResize(n, len)
  \/ \E n \in DevNodes, name \in AllNames, type \in {"File", "Dir"} :
       DevCreate(n, name, type)
  \/ \E n \in DevNodes, name \in Names, other \in DevNodes : DevLink(n, name, other)
  \/ \E n \in DevNodes, name \in AllNames : DevUnlink(n, name)
  \/ \E n \in DevNodes, old \in Names, target \in DevNodes :
       DevMove(n, old, target, NameB)

SpecDev == InitDev /\ [][NextDev]_vars

\* the directories of a DevFS under add, add_dir and remove with every
\* name, looked into by find and get_entry
OpsDevDir == 4

InitDevDir == InitFrom(SfsCreate, OpsDevDir)

NextDevDir ==
  \/ \E n \in DevNodes, name \in AllNames : DevAddDir(n, name)
  \/ \E n \in DevNodes, name \in AllNames : DevAdd(n, name)
  \/ \E n \in DevNodes, name \in AllNames : DevRemove(n, name)
  \/ \E n \in DevNodes, name \in AllNames : DevFind(n, name)
  \/ \E n \in DevNodes, id \in 0 .. 4 : DevGetEntry(n, id)

SpecDevDir == InitDevDir /\ [][NextDevDir]_vars

\* reads and writes of bytes on a BlockDevice, some of its blocks failing
BlkDone(l, data) ==
  /\ halted = "no"
  /\ Spend
  /\ block_dev' = data
  /\ last' = l
  /\ UNCHANGED <<dev, super_block, free_map, inodes, objs, halted,
                 fsb, mount_fs, mountpoints, mnodes, locking, devfs,
                 suspended>>

BlkReadAt(offset, buf, bad) ==
  Let(Device_read_at(block_dev, bad, offset, buf), LAMBDA r :
    BlkDone([op |-> "Device::read_at", res |-> r.res, ret |-> r.ret,
             offset |-> offset, arg |-> buf, buf |-> r.buf, bad |-> bad],
            block_dev))

BlkWriteAt(offset, buf, bad) ==
  Let(Device_write_at(block_dev, bad, offset, buf), LAMBDA r :
    BlkDone([op |-> "Device::write_at", res |-> r.res, ret |-> r.ret,
             offset |-> offset, arg |-> buf, buf |-> buf, bad |-> bad],
            r.data))

OpsBlk == 2

InitBlk == InitFrom(SfsCreate, OpsBlk)

BlkOffsets == {0, 1, 4, BlkBlocks * BLKSIZE - 1, BlkBlocks * BLKSIZE}
BlkBufs == {Buf(0, 20), Buf(2, 21), Buf(BLKSIZE, 22), Buf(2 * BLKSIZE + 1, 23)}
BlkBad == {{}, {0}, {1}, {2}}

NextBlk ==
  \/ \E offset \in BlkOffsets, buf \in BlkBufs, bad \in BlkBad :
       BlkReadAt(offset, buf, bad)
  \/ \E offset \in BlkOffsets, buf \in BlkBufs, bad \in BlkBad :
       BlkWriteAt(offset, buf, bad)

SpecBlk == InitBlk /\ [][NextBlk]_vars

(***************************************************************************)
(* Calls of several tasks. A task runs until an .await of the device       *)
(* suspends it; then another task may run. A step is the part of a call    *)
(* between two such points; a call of which only one point is taken is     *)
(* two steps.                                                              *)
(***************************************************************************)
Suspend(t, call) == suspended' = [suspended EXCEPT ![t] = call]
Resume(t) == suspended' = [suspended EXCEPT ![t] = NoCall]

\* a part of a call that is not its last
PartDone(t, u, call) ==
  /\ halted = "no"
  /\ EffectsOf(u, u.res, last)
  /\ Suspend(t, call)
  /\ UNCHANGED held

\* the last part of a call
LastDone(t, u, l) ==
  /\ EffectsOf(DropTemp(u), u.res, l)
  /\ Resume(t)
  /\ UNCHANGED <<held, budget>>

\* inodes that get_inode may be asked for: root_inode asks for BLKN_ROOT,
\* find and create for the id of an entry
ValidInodes ==
  {id \in BlockIds \ free_map.free : dev[id].k = "inode" \/ inodes[id] >= 0}

\* get_inode(id), the cache holding a live inode: it is returned
GetInodeCached(t, id) ==
  /\ suspended[t] = NoCall
  /\ inodes[id] >= 0
  /\ Spend
  /\ Let(get_inode(Cur, id, FALSE), LAMBDA u :
       Effects(u, u.res, [op |-> "get_inode", res |-> u.res, id |-> id,
                          ret |-> u.ret, cached |-> TRUE]))

\* get_inode(id), the cache holding none: up to load_struct(id).await
GetInodeLoad(t, id) ==
  /\ suspended[t] = NoCall
  /\ inodes[id] < 0
  /\ budget > 0 /\ budget' = budget - 1
  /\ PartDone(t, Cur, [op |-> "get_inode", id |-> id,
                       di |-> DecodeINode(dev[id])])

\* get_inode(id) from the return of load_struct: _new_inode
GetInodeInstall(t) ==
  /\ suspended[t].op = "get_inode"
  /\ Let(new_inode(Cur, suspended[t].id, suspended[t].di, FALSE, FALSE),
         LAMBDA u :
           LastDone(t, u, [op |-> "get_inode", res |-> u.res,
                           id |-> suspended[t].id, ret |-> u.ret,
                           cached |-> FALSE]))

\* calls in a run of SpecLoad
OpsLoad == 5

InitLoad == InitFrom(SfsCreate, OpsLoad)

NextLoad ==
  \/ \E t \in Tasks, id \in ValidInodes : GetInodeCached(t, id)
  \/ \E t \in Tasks, id \in ValidInodes : GetInodeLoad(t, id)
  \/ \E t \in Tasks : GetInodeInstall(t)
  \/ \E k \in Dirs : Create(k, NameA, "File")
  \/ \E k \in Handles : Drop(k)
  \/ Sync

SpecLoad == InitLoad /\ [][NextLoad]_vars

\* create(name, type) on the directory in slot k up to the return of the last
\* read_direntry of the lookup: the call ends when a check fails
CreateCheck(t, k, name, type) ==
  /\ suspended[t] = NoCall
  /\ Live(k)
  /\ budget > 0 /\ budget' = budget - 1
  /\ Let(create2_checks(Cur, k, name), LAMBDA u :
       IF Ok(u)
       THEN PartDone(t, u, [op |-> "create", k |-> k, name |-> name,
                            type |-> type])
       ELSE /\ Effects(u, u.res, [op |-> "create", res |-> u.res, k |-> k,
                                   name |-> name, task |-> t])
            /\ UNCHANGED held)

\* create from there on: the new inode, the entry and the link counts
CreateEntry(t) ==
  /\ suspended[t].op = "create"
  /\ Let(create2_entry(Cur, suspended[t].k, suspended[t].name,
                       suspended[t].type),
         LAMBDA u :
           LastDone(t, u, [op |-> "create", res |-> u.res,
                           k |-> suspended[t].k, name |-> suspended[t].name,
                           task |-> t]))

\* calls in a run of SpecEntries
OpsEntries == 4

InitEntries == InitFrom(SfsCreate, OpsEntries)

NextEntries ==
  \/ RootInode
  \/ \E t \in Tasks, k \in Dirs, name \in Names, type \in {"File", "Dir"} :
       CreateCheck(t, k, name, type)
  \/ \E t \in Tasks : CreateEntry(t)
  \/ \E k \in Dirs, name \in Names, o \in Files : Link(k, name, o)

SpecEntries == InitEntries /\ [][NextEntries]_vars

\* the blocks the file in slot k needs for len bytes
BlocksFor(len) == (len + BLKSIZE - 1) \div BLKSIZE

\* write_at(offset, buf) on the file in slot k that grows it by blocks of the
\* indirect range, up to the return of the last set_disk_block_id(..).await
\* of _resize: the blocks are allocated, the size is not yet set
WriteAtGrow(t, k, offset, buf) ==
  /\ suspended[t] = NoCall
  /\ Live(k)
  /\ objs[k].di.type \in {"File", "SymLink"}
  /\ objs[k].di.size < offset + Len(buf)
  /\ offset + Len(buf) <= MAX_FILE_SIZE
  /\ BlocksFor(offset + Len(buf)) > objs[k].di.blocks
  /\ BlocksFor(offset + Len(buf)) > MAX_NBLOCK_DIRECT
  /\ budget > 0 /\ budget' = budget - 1
  /\ Let(ResizeGreaterBlocks(Cur, k, BlocksFor(offset + Len(buf)),
                             objs[k].di.blocks),
         LAMBDA u :
           IF Ok(u)
           THEN PartDone(t, u, [op |-> "write_at", k |-> k, offset |-> offset,
                                buf |-> buf])
           ELSE /\ Effects(u, u.res, [op |-> "write_at", res |-> u.res,
                                       k |-> k, offset |-> offset, buf |-> buf])
                /\ UNCHANGED held)

\* write_at from there on: the size, _clean_at and _write_at
WriteAtRest(t) ==
  /\ suspended[t].op = "write_at"
  /\ Let(Then(ResizeGreaterSize(Cur, suspended[t].k,
                                suspended[t].offset + Len(suspended[t].buf)),
              LAMBDA u : _write_at(u, suspended[t].k, suspended[t].offset,
                                   suspended[t].buf)),
         LAMBDA v :
           LastDone(t, v, [op |-> "write_at", res |-> v.res,
                           k |-> suspended[t].k, offset |-> suspended[t].offset,
                           buf |-> suspended[t].buf, n |-> v.ret]))

\* calls in a run of SpecWrites
OpsWrites == 4

InitWrites == InitFrom(SfsCreate, OpsWrites)

WritesBufs == {Buf(1, 1), Buf(BLKSIZE + 1, 2), Buf(2 * BLKSIZE, 3)}

NextWrites ==
  \/ RootInode
  \/ \E k \in Dirs : Create(k, NameA, "File")
  \/ \E k \in Files, offset \in {0, 1}, buf \in WritesBufs :
       WriteAt(k, offset, buf)
  \/ \E t \in Tasks, k \in Files, offset \in {0, 1}, buf \in WritesBufs :
       WriteAtGrow(t, k, offset, buf)
  \/ \E t \in Tasks : WriteAtRest(t)

SpecWrites == InitWrites /\ [][NextWrites]_vars

\* the entries of the directory di on the device d, in order, as <<id, name>>
EntriesOf(d, di) ==
  [i \in 1 .. di.size \div DIRENT_SIZE |->
     <<read_direntry(d, di, i - 1).id, read_direntry(d, di, i - 1).name>>]

\* the root directory as the filesystem s has it: the inode held, or the
\* record of the device
RootOf(s) ==
  IF s.inodes[BLKN_ROOT] >= 0 THEN s.objs[s.inodes[BLKN_ROOT]].di
  ELSE DecodeINode(s.dev[BLKN_ROOT])

\* SimpleFileSystem::open on the device of the filesystem, which takes its
\* place when it succeeds; the call records the filesystem it found
Open ==
  /\ Spend
  /\ Let(open(Cur), LAMBDA u :
       Effects(u, u.res,
               [op |-> "open", res |-> u.res,
                synced |-> last.op = "sync" /\ last.res = "Ok",
                blocks |-> IF Ok(u) THEN dev[BLKN_SUPER].blocks ELSE NONE,
                freemap_blocks |->
                  IF Ok(u) THEN dev[BLKN_SUPER].freemap_blocks ELSE NONE,
                unused_blocks |-> super_block.unused_blocks,
                free |-> free_map.free,
                objs |-> objs,
                root |-> EntriesOf(dev, RootOf(Cur))]))

\* the caller lets go of a root directory that has nothing to write back
DropClean(k) == objs[k].id = BLKN_ROOT /\ ~objs[k].dirty /\ Drop(k)

\* calls in a run of SpecReopen
OpsReopen == 5

InitReopen == InitFrom(SfsCreate, OpsReopen)

NextReopen ==
  \/ RootInode
  \/ \E k \in Dirs, type \in {"File", "Dir"} : Create(k, NameA, type)
  \/ \E k \in Files : WriteAt(k, 0, Buf(BLKSIZE + 1, 1))
  \/ \E k \in Dirs : Unlink(k, NameA)
  \/ \E k \in Handles : DropClean(k)
  \/ \E bad \in {{}, {BLKN_SUPER}, {BLKN_FREEMAP}}, how \in {"err", "short"} :
       SyncOn(bad, how)
  \/ Open

SpecReopen == InitReopen /\ [][NextReopen]_vars

(***************************************************************************)
(* Properties                                                              *)
(***************************************************************************)
\* a caller with room for one more handle than the bound, to look inodes up
Probe ==
  [Cur EXCEPT !.objs = [k \in 0 .. MaxObjs + 1 |->
                         IF k <= MaxObjs THEN objs[k] ELSE NullObj]]

\* C1: when write_at(0, b) on a file returns Ok, read_at(0, len(b)) on the
\* state it leaves returns Ok, len(b) bytes, and exactly the bytes of b
C1_WriteThenRead ==
  (last.op = "write_at" /\ last.res = "Ok" /\ last.offset = 0)
    => Let(read_at(Cur, last.k, 0, Len(last.buf)), LAMBDA r :
         r.res = "Ok" /\ r.n = Len(last.buf) /\ r.data = last.buf)

\* a write that reaches the double-indirect range has been read back
C1_Witness ==
  /\ last.op = "write_at" /\ last.res = "Ok" /\ last.offset = 0
  /\ objs[last.k].di.blocks > MAX_NBLOCK_INDIRECT
  /\ read_at(Cur, last.k, 0, Len(last.buf)).data = last.buf

\* C2: when resize(N) on a file of size M < N returns Ok, read_at(M, N - M)
\* returns N - M bytes, all zero
C2_ResizeZeroFills ==
  (last.op = "resize" /\ last.res = "Ok" /\ last.len > last.old)
    => Let(read_at(Cur, last.k, last.old, last.len - last.old), LAMBDA r :
         r.res = "Ok" /\ r.n = last.len - last.old
         /\ r.data = Zeros(last.len - last.old))

\* C3: unused_blocks is the number of set bits of the free map, and an id
\* returned by alloc_block and not yet freed is held once and is not free
C3_AllocatorInvariant ==
  /\ super_block.unused_blocks = Cardinality(free_map.free)
  /\ \A id \in DOMAIN held : held[id] <= 1 /\ (held[id] = 1 => id \notin free_map.free)

\* alloc_block has returned an id below one still held: a freed id came back
C3_Witness ==
  /\ last.op = "alloc_block" /\ last.res = "Ok" /\ last.ret # NONE
  /\ \E id \in DOMAIN held : held[id] = 1 /\ id > last.ret
  /\ held[last.ret] = 1 /\ last.ret \notin free_map.free

\* the blocks the inode in slot k refers to: its inode block, its data
\* blocks, its indirect table, its double-indirect table and that table's pages
RefsOf(k) ==
  <<objs[k].id>>
  \o [i \in 1 .. objs[k].di.blocks |-> get_disk_block_id(dev, objs[k].di, i - 1).v]
  \o (IF objs[k].di.blocks >= MAX_NBLOCK_DIRECT THEN <<objs[k].di.indirect>> ELSE <<>>)
  \o (IF objs[k].di.blocks >= MAX_NBLOCK_INDIRECT
      THEN <<objs[k].di.db_indirect>> ELSE <<>>)
  \o [i \in 1 .. PagesOf(objs[k].di) |->
        IF objs[k].di.db_indirect \in BlockIds
        THEN ReadCell(dev, objs[k].di.db_indirect, ENTRY_SIZE * (i - 1)) ELSE GARB]

\* the inodes the caller holds that some directory entry still counts
Linked == {k \in Handles : objs[k].di.nlinks > 0}

\* refs: the references of one inode; none is free, none occurs twice
OwnedOnce(refs) ==
  \A i \in DOMAIN refs :
    /\ refs[i] \notin free_map.free
    /\ \A j \in DOMAIN refs : j # i => refs[j] # refs[i]

Disjoint(r1, r2) == \A i \in DOMAIN r1, j \in DOMAIN r2 : r1[i] # r2[j]

\* C4: no block is referenced by two inodes or twice by one, and no block
\* an inode references is free
C4_BlockOwnership ==
  halted = "no" =>
    /\ \A k \in Linked : OwnedOnce(RefsOf(k))
    /\ \A k1, k2 \in Linked : k1 # k2 => Disjoint(RefsOf(k1), RefsOf(k2))

\* entry i of the directory in slot k: get_entry(i) names it, and find of
\* that name returns the inode whose id the entry stores
FoundAs(r, id) == r.res = "Ok" /\ r.objs[r.ret].id = id

EntryNamed(s, k, i, e) ==
  e.res = "Ok" /\ FoundAs(find(s, k, e.name), read_direntry(s.dev, s.objs[k].di, i).id)

EntryFound(s, k, i) == EntryNamed(s, k, i, get_entry(s, k, i))

\* C5: for every directory held and every index i below its entry count,
\* find(get_entry(i)) succeeds and returns the inode whose id the entry
\* stores
C5_EntriesFound ==
  halted = "no" =>
    \A k \in Dirs :
      \A i \in 0 .. objs[k].di.size \div DIRENT_SIZE - 1 : EntryFound(Probe, k, i)

\* C6: every directory held has a size that is a multiple of DIRENT_SIZE,
\* entry 0 is "." with its own id and entry 1 is ".."; and unlink and move_
\* call remove_direntry on no slot below 2
C6_DirShape ==
  /\ halted = "no" =>
       \A k \in Dirs :
         /\ objs[k].di.size % DIRENT_SIZE = 0
         /\ read_direntry(dev, objs[k].di, 0).name = NameDot
         /\ read_direntry(dev, objs[k].di, 0).id = objs[k].id
         /\ read_direntry(dev, objs[k].di, 1).name = NameDotDot
  /\ last.op \in {"unlink", "move_"} => last.rm \cap {0, 1} = {}

\* C7: after unlink removed a file's last link, its handle was dropped and
\* sync() returned, unused_blocks is its value before the unlink plus the
\* file's blocks plus one, and the inode block is free
C7_UnlinkedFileFreed ==
  (/\ last.op = "sync" /\ last.res = "Ok"
   /\ last.prev.op = "drop" /\ last.prev.unl.op = "unlink"
   /\ last.prev.di.type = "File" /\ last.prev.di.nlinks = 0)
    => /\ super_block.unused_blocks
            = last.prev.unl.u0 + NBlocksOf(last.prev.di) + 1
       /\ last.prev.id \in free_map.free

\* C8: after the handle of a dirty inode was dropped and sync() returned,
\* the inode block holds the record the inode had when it was dropped
C8_DirtyInodeWrittenBack ==
  (/\ last.op = "sync" /\ last.res = "Ok"
   /\ last.prev.op = "drop" /\ last.prev.dirty /\ last.prev.di.nlinks > 0)
    => DecodeINode(dev[last.prev.id]) = last.prev.di

\* C9: a sync() that directly follows a sync() writes no block and leaves
\* the device, the superblock, the free map, the cache and the inodes as
\* they were
C9_SyncTwice ==
  [][(last.op = "sync" /\ last.res = "Ok" /\ last'.op = "sync")
       => /\ last'.res = "Ok" /\ last'.wr = 0
          /\ UNCHANGED <<dev, super_block, free_map, inodes, objs>>]_vars

\* a second sync() has run and written nothing, after a first that wrote
C9_Witness ==
  /\ last.op = "sync" /\ last.res = "Ok" /\ last.wr = 0
  /\ last.prev.op = "sync" /\ last.prev.wr > 0

\* a caller of MountFS with room for the inodes of two traversals
ProbeObjs(o) == [k \in 0 .. MaxObjs + 4 |-> IF k <= MaxObjs THEN o[k] ELSE NullObj]
ProbeM == [MCur EXCEPT !.a.objs = ProbeObjs(@), !.b.objs = ProbeObjs(@)]

\* the id of the inode /a/b of the first filesystem, by its own find
PathAB(s) ==
  Then(root_inode(s), LAMBDA r :
  Then(find(r, r.ret, NameA), LAMBDA x :
  Then(find(x, x.ret, NameB), LAMBDA y : [y EXCEPT !.ret = y.objs[y.ret].id])))

\* root(fs_a).find("a").find("b")
Down(m) ==
  Then(MountFS_root_inode(m, 1), LAMBDA r :
  Then(MNode_find(r, r.ret, FALSE, NameA), LAMBDA x :
       MNode_find(x, x.ret, FALSE, NameB)))

\* root(v).find("..").find("..")
Up(m, v) ==
  Then(MountFS_root_inode(m, v), LAMBDA r :
  Then(MNode_find(r, r.ret, FALSE, NameDotDot), LAMBDA x :
       MNode_find(x, x.ret, FALSE, NameDotDot)))

\* r returned the root of filesystem f, as a node of MountFS v
IsRootOf(r, v, f) ==
  r.res = "Ok" /\ r.ret.vfs = v /\ r.ret.fs = f /\ InodeId(r, r.ret) = BLKN_ROOT

\* the inode of MNode n is a directory
IsDir(n) == MCur[n.fs].objs[n.slot].di.type = "Dir"

\* p: what PathAB returned. MountFS v is mounted on the directory /a/b, the
\* one mount point of the first MountFS, and wraps the second filesystem
MountedAt(p, v) ==
  /\ p.res = "Ok"
  /\ IsDir(mount_fs[v].self_mountpoint)
  /\ mountpoints[1][p.ret] = v
  /\ \A i \in BlockIds : i # p.ret => mountpoints[1][i] = NONE
  /\ mount_fs[v].inner = "b"
  /\ mount_fs[v].self_mountpoint.vfs = 1
  /\ mount_fs[v].self_mountpoint.fs = "a"
  /\ InodeId(MCur, mount_fs[v].self_mountpoint) = p.ret

\* C10: with the second filesystem mounted on /a/b of the first, find("a")
\* then find("b") from the first root returns the root of the second, as a
\* node of the mounted MountFS; and find("..") twice from that root returns
\* the root of the first
C10_MountTraversal ==
  halted = "no" =>
    \A v \in Mounts \ {1} :
      MountedAt(PathAB(ProbeM.a), v)
        => IsRootOf(Down(ProbeM), v, "b") /\ IsRootOf(Up(ProbeM, v), 1, "a")

\* the second filesystem is mounted on /a/b, and both traversals arrive
C10_Witness ==
  /\ halted = "no" /\ last.op = "MNode::mount"
  /\ \E v \in Mounts \ {1} :
       /\ MountedAt(PathAB(ProbeM.a), v)
       /\ IsRootOf(Down(ProbeM), v, "b") /\ IsRootOf(Up(ProbeM, v), 1, "a")

\* t: what a call on ProbeM returned. It was refused with err, and neither
\* filesystem's device, nor an inode held, nor a mount table changed
Refused(t, err) ==
  /\ t.res = err
  /\ t.a.dev = dev /\ t.b.dev = fsb.dev
  /\ Sweep(t).a.objs = ProbeM.a.objs /\ Sweep(t).b.objs = ProbeM.b.objs
  /\ t.a.sb = super_block /\ t.a.fm = free_map /\ t.b.sb = fsb.sb /\ t.b.fm = fsb.fm
  /\ t.mountpoints = mountpoints /\ t.vfs = mount_fs

\* the inner find of name from n resolves to a key of n's mount table
ResolvesToMount(x, n) ==
  x.res = "Ok" /\ mountpoints[n.vfs][InodeId(x, x.ret)] # NONE

C12_NotSameFs ==
  halted = "no" =>
    \A h \in MNodes, o \in Others :
      o.vfs # mnodes[h].vfs =>
        /\ \A name \in AllNames :
             Refused(MNode_link(ProbeM, mnodes[h], name, o), "NotSameFs")
        /\ \A old \in AllNames, new \in AllNames :
             Refused(MNode_move(ProbeM, mnodes[h], old, o, new), "NotSameFs")

\* n is the mount point of an entry id of the table of MountFS v
BackRef(n, v, id) ==
  n.vfs = v /\ n.fs = mount_fs[v].inner /\ InodeId(MCur, n) = id

Entries(s, k) ==
  [i \in 1 .. s.objs[k].di.size \div DIRENT_SIZE |->
     <<read_direntry(s.dev, s.objs[k].di, i - 1).id,
       read_direntry(s.dev, s.objs[k].di, i - 1).name>>]

\* name is present in the directory in slot k of s
Present(s, k, name) == \E i \in DOMAIN Entries(s, k) : Entries(s, k)[i][2] = name

CreateTypes == {"File", "SymLink", "Dir", "CharDevice"}

\* t: what create(name, type) on slot k of s returned
Created(s, k, name, type, t) ==
  IF s.objs[k].di.type # "Dir" THEN t = Fail(s, "NotDir")
  ELSE IF s.objs[k].di.nlinks = 0 THEN t = Fail(s, "DirRemoved")
  ELSE IF Present(s, k, name) THEN t = Fail(s, "EntryExist")
  ELSE t.res = "Ok" =>
         /\ Entries(t, k) = Append(Entries(s, k), <<t.objs[t.ret].id, name>>)
         /\ t.objs[t.ret].di.type = type
         /\ t.objs[t.ret].di.nlinks = (IF type = "Dir" THEN 2 ELSE 1)
         /\ t.objs[k].di.nlinks
              = s.objs[k].di.nlinks + (IF type = "Dir" THEN 1 ELSE 0)

\* C14: create(name, type) returns NotDir on an inode that is no Dir,
\* DirRemoved on a directory of nlinks 0 and EntryExist for a name present,
\* each time changing nothing; when it succeeds the directory has gained one
\* entry, of the name and the new inode's id, the new inode has nlinks 1 (2
\* for a Dir), and the parent's nlinks is one more exactly for a Dir
C14_Create ==
  halted = "no" =>
    \A k \in Handles, name \in AllNames, type \in CreateTypes :
      Created(Probe, k, name, type, create2(Probe, k, name, type))

\* the entries of the directory in slot k of s, as a set
EntrySet(s, k) == {Entries(s, k)[i] : i \in DOMAIN Entries(s, k)}

\* directories that pass unlink's, link's and move_'s first checks
LinkedDirs == {k \in Dirs : objs[k].di.nlinks > 0}

\* nothing a caller holds and nothing on the device differs between s and t
SameInodes(s, t) ==
  /\ t.dev = s.dev
  /\ \A j \in 1 .. MaxObjs : t.objs[j] = s.objs[j]

\* t: what unlink(name) on the directory in slot k of s returned, name being
\* bound to f.id, which g holds loaded in slot g.ret
UnlinkedEntry(s, k, name, f, g, t) ==
  IF g.res = "Ok" /\ g.objs[g.ret].di.type = "Dir"
     /\ g.objs[g.ret].di.size > 2 * DIRENT_SIZE
  THEN t.res = "DirNotEmpty" /\ SameInodes(s, t)
  ELSE t.res = "Ok" =>
         /\ g.res = "Ok"
         /\ t.objs[k].di.size = s.objs[k].di.size - DIRENT_SIZE
         /\ EntrySet(t, k) = EntrySet(s, k) \ {<<f.id, name>>}
         /\ t.objs[g.ret].di.nlinks
              = g.objs[g.ret].di.nlinks
                - (IF g.objs[g.ret].di.type = "Dir" THEN 2 ELSE 1)
         /\ g.ret # k =>
              t.objs[k].di.nlinks
                = s.objs[k].di.nlinks
                  - (IF g.objs[g.ret].di.type = "Dir" THEN 1 ELSE 0)

\* t: what unlink(name) on the directory in slot k of s returned
Unlinked(s, k, name, t) ==
  IF name \in {NameDot, NameDotDot} THEN t = Fail(s, "IsDir")
  ELSE IF ~Present(s, k, name) THEN t = Fail(s, "EntryNotFound")
  ELSE Let(get_file_inode_and_entry_id(s, k, name), LAMBDA f :
         UnlinkedEntry(s, k, name, f, get_inode(s, f.id, TRUE), t))

\* C15: unlink(name) on a directory returns IsDir for "." and "..",
\* EntryNotFound for a name that is absent and DirNotEmpty for a directory
\* holding more than "." and "..", each time leaving entries and nlinks as
\* they were; when it succeeds the directory has lost exactly the entry of
\* that name, the target's nlinks is 1 less (2 for a Dir) and the parent's
\* nlinks is 1 less exactly when the target is a Dir
C15_Unlink ==
  halted = "no" =>
    \A k \in LinkedDirs, name \in AllNames :
      Unlinked(Probe, k, name, unlink(Probe, k, name))

\* t: what linking name to the inode in slot o returned, through link or
\* through link_inodeimpl, on the directory in slot k of s
LinkedAs(s, k, name, o, t) ==
  IF Present(s, k, name) THEN t = Fail(s, "EntryExist")
  ELSE IF s.objs[o].di.type = "Dir" THEN t = Fail(s, "IsDir")
  ELSE /\ t.res # "hang"
       /\ t.res = "Ok" =>
            /\ t.objs[k].di.size = s.objs[k].di.size + DIRENT_SIZE
            /\ Entries(t, k) = Append(Entries(s, k), <<s.objs[o].id, name>>)
            /\ t.objs[o].di.nlinks = s.objs[o].di.nlinks + 1

\* C16: link(name, other) on a directory, through INode::link and through
\* link_inodeimpl alike, returns EntryExist for a name that is present and
\* IsDir for an other that is a Dir, leaving the state as it was; otherwise
\* it completes, and when it returns Ok the directory is DIRENT_SIZE larger,
\* with a new last entry of name and other's id, and other's nlinks is one
\* more
C16_Link ==
  halted = "no" =>
    \A k \in LinkedDirs, name \in AllNames, o \in Handles :
      /\ LinkedAs(Probe, k, name, o, link(Probe, k, name, o))
      /\ LinkedAs(Probe, k, name, o, link_inodeimpl(Probe, k, name, o))

\* the entries of the directory in slot k of s under names other than those
\* in skip
OtherEntries(s, k, skip) == {e \in EntrySet(s, k) : e[2] \notin skip}

\* the names move_(old_name, target, new_name) is about in the directory in
\* slot d: old_name in the source k, new_name in the target t
MovedNames(k, old_name, t, new_name, d) ==
  (IF d = k THEN {old_name} ELSE {}) \cup (IF d = t THEN {new_name} ELSE {})

\* r: the state a successful move_(old_name, target, new_name) left, from
\* the directory in slot k of s to the one in slot t, b being what
\* find(old_name) returned in s
MovedAs(s, k, old_name, t, new_name, b, r) ==
  /\ b.res = "Ok" =>
       Let(find(r, t, new_name), LAMBDA a :
         a.res = "Ok" /\ a.objs[a.ret].id = b.objs[b.ret].id)
  /\ ~(k = t /\ old_name = new_name) => ~Present(r, k, old_name)
  /\ \A d \in {k, t} :
        OtherEntries(r, d, MovedNames(k, old_name, t, new_name, d))
          = OtherEntries(s, d, MovedNames(k, old_name, t, new_name, d))
  /\ (b.res = "Ok" /\ b.objs[b.ret].di.type # "Dir") =>
        \A d \in {k, t} : r.objs[d].di.nlinks = s.objs[d].di.nlinks
  /\ (b.res = "Ok" /\ b.objs[b.ret].di.type = "Dir" /\ k # t) =>
        /\ r.objs[k].di.nlinks = s.objs[k].di.nlinks - 1
        /\ r.objs[t].di.nlinks = s.objs[t].di.nlinks + 1

\* C17: when move_(old, target, new) returns Ok, target.find(new) returns
\* the inode that find(old) returned before, old is absent from the source
\* unless the two directories and the two names are the same, every other
\* entry of both directories is bound as before, the nlinks of both
\* directories are as before when a file was moved and, when a Dir was moved
\* to another directory, the source's is one less and the target's one more
C17_Move ==
  halted = "no" =>
    \A k \in LinkedDirs, t \in LinkedDirs, old \in AllNames, new \in AllNames :
      Let(move_(Probe, k, old, t, new), LAMBDA r :
        r.res = "Ok" => MovedAs(Probe, k, old, t, new, find(Probe, k, old), r))

\* a directory has been moved from the root into another directory, which
\* counts one link more for it
C17_Witness ==
  /\ halted = "no" /\ last.op = "move_" /\ last.res = "Ok"
  /\ \E k \in LinkedDirs, t \in LinkedDirs :
       /\ objs[k].id = BLKN_ROOT /\ objs[k].di.nlinks = 2
       /\ objs[t].id # BLKN_ROOT /\ objs[t].di.nlinks = 3
       /\ \E e \in EntrySet(Cur, t) : e[2] \in Names /\ e[1] # objs[t].id

\* the bytes of the file in slot k of s
Content(s, k) == read_at(s, k, 0, s.objs[k].di.size).data

\* offsets and buffers to write: inside a block, across a block boundary,
\* past the end, and nothing at all
WriteOffsets == {0, 1, 4}
WriteBufs == {Buf(0, 3), Buf(2, 3), Buf(4, 3)}

\* t: the state write_at(offset, buf) left, having returned Ok(t.ret), on the
\* file in slot k of s
Written(s, k, offset, buf, t) ==
  /\ t.ret = Len(buf)
  /\ t.objs[k].di.size = (IF s.objs[k].di.size > offset + Len(buf)
                          THEN s.objs[k].di.size ELSE offset + Len(buf))
  /\ t.objs[k].di.blocks = (t.objs[k].di.size + BLKSIZE - 1) \div BLKSIZE
  /\ \A i \in 1 .. s.objs[k].di.size :
        (i - 1 < offset \/ i - 1 >= offset + Len(buf)) =>
          Content(t, k)[i] = Content(s, k)[i]

\* C18: when write_at(offset, buf) on a File or SymLink of size S returns Ok,
\* it returns len(buf), the size is max(S, offset + len(buf)), blocks is the
\* size divided by BLKSIZE rounded up, and every byte below S that is
\* outside [offset, offset + len(buf)) is as it was
C18_WriteAt ==
  halted = "no" =>
    \A k \in Handles, offset \in WriteOffsets, buf \in WriteBufs :
      objs[k].di.type \in {"File", "SymLink"} =>
        Let(write_at(Probe, k, offset, buf), LAMBDA t :
          t.res = "Ok" => Written(Probe, k, offset, buf, t))

\* a write shorter than the file has returned Ok and the bytes after it
\* are those of an earlier write
C18_Witness ==
  /\ halted = "no" /\ last.op = "write_at" /\ last.res = "Ok"
  /\ objs[last.k].di.size > Len(last.buf)
  /\ Content(Cur, last.k)[Len(last.buf) + 1] \notin {0, last.buf[1]}

WantsLock(t, l) == NextAcq(t) /\ Head(locking.task[t].prog).lock = l

HoldsDiskInode(t) == \E h \in HeldBy(t) : h[1][1] = "disk_inode"

\* t spins on a lock that u holds
Spins(t, u) ==
  /\ NextAcq(t)
  /\ ~CanAcquire(Head(locking.task[t].prog))
  /\ HoldsLock(u, Head(locking.task[t].prog).lock)

\* C19: no task goes for free_map while it holds super_block, none goes for
\* free_map or super_block while it holds the disk_inode lock of an inode,
\* and sync in one task with resize, write_at or unlink in the other never
\* come to where each spins on a lock the other holds
C19_LockOrder ==
  \A t \in Tasks :
    /\ WantsLock(t, FreeMapLock) => ~HoldsLock(t, SuperBlockLock)
    /\ (WantsLock(t, FreeMapLock) \/ WantsLock(t, SuperBlockLock))
         => ~HoldsDiskInode(t)
    /\ \A u \in Tasks \ {t} : ~(Spins(t, u) /\ Spins(u, t))

NotSupportedOps ==
  {"DevINode::create", "DevINode::link", "DevINode::unlink", "DevINode::move_",
   "DevINode::set_metadata"}

IsDirOps == {"DevINode::read_at", "DevINode::write_at", "DevINode::resize"}

\* C20: on a DevFS directory, create, link, unlink, move_ and set_metadata
\* return NotSupported and read_at, write_at and resize return IsDir,
\* whatever the arguments, without changing any children map; a children
\* map changes only in add, add_dir and remove
C20_DevFSReadOnly ==
  [][/\ last'.op \in NotSupportedOps =>
          last'.res = "NotSupported" /\ devfs'.children = devfs.children
     /\ last'.op \in IsDirOps =>
          last'.res = "IsDir" /\ devfs'.children = devfs.children
     /\ devfs'.children # devfs.children =>
          last'.op \in {"add", "add_dir", "remove"}]_vars

\* unlink of a name that is among the children has been refused
C20_Witness ==
  /\ last.op = "DevINode::unlink" /\ last.res = "NotSupported"
  /\ last.name \in DOMAIN devfs.children[last.n]

\* C21: on every DevFS directory, find(".") returns the directory itself,
\* find("..") returns its parent, and the root itself on the root; any other
\* name returns the child registered under it, EntryNotFound if none is
C21_Find ==
  \A n \in DevNodes, name \in AllNames :
    Let(DevINode_find(devfs, n, name), LAMBDA r :
      IF name = NameDot THEN r.res = "Ok" /\ r.ret = DirChild(n)
      ELSE IF name = NameDotDot
      THEN r.res = "Ok"
           /\ r.ret = DirChild(IF devfs.parent[n] = 0 THEN n ELSE devfs.parent[n])
      ELSE IF name \in DOMAIN devfs.children[n]
      THEN r.res = "Ok" /\ r.ret = devfs.children[n][name]
      ELSE r.res = "EntryNotFound")

\* the entries get_entry lists for directory n of d: ".", "..", then the
\* i-th child name is the one with i smaller names among the children
Listed(d, n) ==
  \A id \in 0 .. Cardinality(DOMAIN d.children[n]) + 3 :
    Let(DevINode_get_entry(d, n, id), LAMBDA r :
      IF id = 0 THEN r.res = "Ok" /\ r.ret = NameDot
      ELSE IF id = 1 THEN r.res = "Ok" /\ r.ret = NameDotDot
      ELSE IF id >= 2 + Cardinality(DOMAIN d.children[n])
      THEN r.res = "EntryNotFound"
      ELSE /\ r.res = "Ok"
           /\ r.ret \in DOMAIN d.children[n]
           /\ Cardinality({x \in DOMAIN d.children[n] : x < r.ret}) = id - 2)

\* C22: add and add_dir of a name that is a child return EntryExist, remove
\* of a name that is not returns EntryNotFound, the children unchanged;
\* after a successful add or add_dir find(name) returns the inode added and
\* metadata().size is one more, after a successful remove find(name)
\* returns EntryNotFound; get_entry lists ".", "..", the children names in
\* ascending order, and EntryNotFound from 2 + the number of children on
C22_AddRemove ==
  [][/\ last'.op \in {"add", "add_dir"} =>
          IF last'.name \in DOMAIN devfs.children[last'.n]
          THEN last'.res = "EntryExist" /\ devfs'.children = devfs.children
          ELSE /\ last'.res = "Ok"
               /\ DevINode_size(devfs', last'.n) = DevINode_size(devfs, last'.n) + 1
               /\ Let(DevINode_find(devfs', last'.n, last'.name), LAMBDA r :
                     /\ r.res = "Ok"
                     /\ r.ret = IF last'.op = "add" THEN DeviceChild
                                ELSE DirChild(last'.ret))
     /\ last'.op = "remove" =>
          IF last'.name \notin DOMAIN devfs.children[last'.n]
          THEN last'.res = "EntryNotFound" /\ devfs'.children = devfs.children
          ELSE /\ last'.res = "Ok"
               /\ DevINode_find(devfs', last'.n, last'.name).res = "EntryNotFound"
     /\ \A n \in DevNodes : Listed(devfs', n)]_vars

\* the blocks a call on [offset, offset + len) goes to, and the bytes in the
\* blocks before the first of them that fails
BlocksOf(offset, len) ==
  {b \in 0 .. (offset + len) \div BLKSIZE :
     b * BLKSIZE < offset + len /\ (b + 1) * BLKSIZE > offset /\ len > 0}

Transferred(offset, len, bad) ==
  Let({b \in BlocksOf(offset, len) : b >= BlkBlocks \/ b \in bad}, LAMBDA failing :
    IF failing = {} THEN len
    ELSE IF Min(failing) * BLKSIZE <= offset THEN 0
    ELSE Min(failing) * BLKSIZE - offset)

\* C23: Device::read_at(offset, buf) returns Ok(n), never an error, n the
\* number of bytes of [offset, offset + len) in the blocks before the first
\* block whose read fails (len if none fails); buf[0..n] holds the device's
\* bytes from offset on, buf[n..] is as it was
C23_ReadAt ==
  last.op = "Device::read_at" =>
    /\ last.res = "Ok"
    /\ last.ret = Transferred(last.offset, Len(last.arg), last.bad)
    /\ Len(last.buf) = Len(last.arg)
    /\ \A i \in 1 .. Len(last.arg) :
         last.buf[i] = IF i <= last.ret THEN block_dev[last.offset + i]
                       ELSE last.arg[i]

\* a read that began inside a block and stopped at a failing block further on
C23_Witness ==
  /\ last.op = "Device::read_at"
  /\ last.offset % BLKSIZE # 0
  /\ last.ret > 0 /\ last.ret < Len(last.arg)

\* C24: Device::write_at(offset, buf) returns Ok(n), n the bytes in the
\* blocks before the first failing block (len if none fails), and changes
\* exactly the device bytes [offset, offset + n), to buf[0..n]: the other
\* bytes of a block covered in part, and every other block, are as before
C24_WriteAt ==
  [][last'.op = "Device::write_at" =>
       /\ last'.res = "Ok"
       /\ last'.ret = Transferred(last'.offset, Len(last'.arg), last'.bad)
       /\ Len(block_dev') = Len(block_dev)
       /\ \A j \in 1 .. Len(block_dev) :
            block_dev'[j] = IF j - 1 >= last'.offset /\ j - 1 < last'.offset + last'.ret
                      THEN last'.arg[j - last'.offset]
                      ELSE block_dev[j]]_vars

\* a write that covered its first and its last block in part
C24_Witness ==
  /\ last.op = "Device::write_at"
  /\ last.offset % BLKSIZE # 0
  /\ (last.offset + Len(last.arg)) % BLKSIZE # 0
  /\ last.ret = Len(last.arg) /\ last.ret > BLKSIZE
  /\ \E j \in 1 .. Len(block_dev) : block_dev[j] = last.arg[1]

\* C25: alloc_block returns the lowest free bit, clears it and takes one from
\* unused_blocks; with no unused block (no bit set in the free map) it
\* returns none without panicking, the free map and unused_blocks as before
C25_AllocBlock ==
  [][last'.op = "alloc_block" =>
       IF free_map.free # {} /\ super_block.unused_blocks > 0
       THEN /\ last'.res = "Ok"
            /\ last'.ret = Min(free_map.free)
            /\ free_map'.free = free_map.free \ {last'.ret}
            /\ super_block'.unused_blocks = super_block.unused_blocks - 1
       ELSE /\ last'.res = "Ok"
            /\ last'.ret = NONE
            /\ halted' = "no"
            /\ free_map'.free = free_map.free
            /\ super_block'.unused_blocks = super_block.unused_blocks]_vars

\* the device calls of a sync from the state before it: the superblock if
\* dirty, the blocks of the free map if dirty, each live dirty inode in the
\* order of the inode cache, and device.sync()
Expected ==
  (IF super_block.dirty THEN <<WriteCall(BLKN_SUPER)>> ELSE <<>>)
    \o (IF free_map.dirty
        THEN [i \in 1 .. FreemapBlocks |-> WriteCall(BLKN_FREEMAP + i - 1)]
        ELSE <<>>)
    \o Let(Keys({objs[k].id : k \in {h \in Handles : objs[h].dirty}}), LAMBDA ids :
         [i \in 1 .. Len(ids) |-> WriteCall(ids[i])])
    \o <<SyncCall>>

\* C26: the device calls of one sync are the superblock write if it is
\* dirty, then the free map's block writes if it is dirty, then the write of
\* each live dirty inode, then device.sync(), and nothing else; a write that
\* fails ends sync there with an error, what was not written still dirty
C26_SyncOrder ==
  [][last'.op = "sync" =>
       Let({i \in 1 .. Len(Expected) - 1 : Expected[i].block \in last'.bad},
           LAMBDA failing :
             IF failing = {}
             THEN last'.res = "Ok" /\ last'.log = Expected
             ELSE /\ last'.res \notin {"Ok", "panic", "hang"}
                  /\ last'.log = SubSeq(Expected, 1, Min(failing))
                  /\ Let(Expected[Min(failing)].block, LAMBDA b :
                        IF b = BLKN_SUPER THEN super_block'.dirty
                        ELSE IF b >= BLKN_FREEMAP /\ b < BLKN_FREEMAP + FreemapBlocks
                        THEN free_map'.dirty
                        ELSE \E k \in Handles : objs'[k].id = b /\ objs'[k].dirty))]_vars

\* indirect pages a file of the given number of blocks needs: one for every
\* BLK_NENTRY blocks, or part of them, beyond MAX_NBLOCK_INDIRECT
CeilPages(blocks) ==
  IF blocks <= MAX_NBLOCK_INDIRECT THEN 0
  ELSE (blocks - MAX_NBLOCK_INDIRECT + BLK_NENTRY - 1) \div BLK_NENTRY

\* blocks a growth from di to blocks has to allocate: the data blocks, the
\* indirect block and the double-indirect block if they are newly needed,
\* and the pages
GrowthNeeds(di, blocks) ==
  (blocks - di.blocks)
    + (IF di.blocks < MAX_NBLOCK_DIRECT /\ blocks >= MAX_NBLOCK_DIRECT THEN 1 ELSE 0)
    + (IF di.db_indirect = 0 /\ blocks > MAX_NBLOCK_INDIRECT THEN 1 ELSE 0)
    + (CeilPages(blocks) - CeilPages(di.blocks))

\* C27: when a resize grows a file to a number of blocks in the
\* double-indirect range, db_indirect is allocated if it was absent, kept if
\* not, and the pages allocated and recorded in it are exactly those of
\* index CeilPages(old blocks) up to, not including, CeilPages(new blocks):
\* no page without a data block, no index beyond BLK_NENTRY - 1
C27_GrowPages ==
  [][(/\ last'.op = "resize" /\ last'.res = "Ok"
      /\ objs'[last'.k].di.blocks > objs[last'.k].di.blocks
      /\ objs'[last'.k].di.blocks > MAX_NBLOCK_INDIRECT)
       => /\ objs'[last'.k].di.db_indirect \in BlockIds \ {0}
          /\ objs'[last'.k].di.db_indirect \notin free_map'.free
          /\ objs[last'.k].di.db_indirect # 0
               => objs'[last'.k].di.db_indirect = objs[last'.k].di.db_indirect
          /\ CeilPages(objs'[last'.k].di.blocks) <= BLK_NENTRY
          /\ \A i \in CeilPages(objs[last'.k].di.blocks) ..
                       CeilPages(objs'[last'.k].di.blocks) - 1 :
               ReadCell(dev', objs'[last'.k].di.db_indirect, ENTRY_SIZE * i)
                 \in free_map.free \ free_map'.free
          /\ super_block.unused_blocks - super_block'.unused_blocks
               = GrowthNeeds(objs[last'.k].di, objs'[last'.k].di.blocks)]_vars

\* g: the file k grown by resize; h: g shrunk back to the size of the file.
\* The free map, unused_blocks, the file's size and its indirect and
\* db_indirect are as before the growth, and nothing was freed twice
\* (free_block would have panicked)
Restored(k, h) ==
  /\ h.res = "Ok"
  /\ h.fm.free = free_map.free
  /\ h.sb.unused_blocks = super_block.unused_blocks
  /\ h.objs[k].di.blocks = objs[k].di.blocks
  /\ h.objs[k].di.size = objs[k].di.size
  /\ h.objs[k].di.indirect = objs[k].di.indirect
  /\ h.objs[k].di.db_indirect = objs[k].di.db_indirect

\* C28: a file grown by resize and shrunk back to its size has freed exactly
\* what the growth allocated: unused_blocks, the free map and the file's
\* tables are as before; and indirect and db_indirect of a file are 0 while
\* its blocks are below MAX_NBLOCK_DIRECT and MAX_NBLOCK_INDIRECT
C28_GrowShrink ==
  halted = "no" =>
    \A k \in Files :
      /\ objs[k].di.blocks < MAX_NBLOCK_DIRECT => objs[k].di.indirect = 0
      /\ objs[k].di.blocks < MAX_NBLOCK_INDIRECT => objs[k].di.db_indirect = 0
      /\ \A len \in GrowLens :
           len > objs[k].di.size =>
             Let(resize(Cur, k, len), LAMBDA g :
               g.res = "Ok" =>
                 /\ g.objs[k].di.blocks < MAX_NBLOCK_DIRECT => g.objs[k].di.indirect = 0
                 /\ g.objs[k].di.blocks < MAX_NBLOCK_INDIRECT
                      => g.objs[k].di.db_indirect = 0
                 /\ Restored(k, resize(g, k, objs[k].di.size)))

\* a file of one block can grow across both thresholds and come back
C28_Witness ==
  /\ halted = "no"
  /\ \E k \in Files :
       /\ objs[k].di.blocks = 1
       /\ Let(resize(Cur, k, (MAX_NBLOCK_INDIRECT + BLK_NENTRY) * BLKSIZE), LAMBDA g :
            /\ g.res = "Ok"
            /\ g.sb.unused_blocks < super_block.unused_blocks - BLK_NENTRY
            /\ Restored(k, resize(g, k, objs[k].di.size)))

\* C29: for every inode held and every file block id, get_disk_block_id and
\* set_disk_block_id return a block id or an error, never panic, and return
\* InvalidParam for an id of inode.blocks or more, ids from
\* MAX_NBLOCK_DOUBLE_INDIRECT on included; _resize refuses a length beyond
\* MAX_FILE_SIZE, or of more than MAX_NBLOCK_DOUBLE_INDIRECT blocks, with
\* InvalidParam, the inode and the allocator unchanged
C29_NoPanic ==
  halted = "no" =>
    \A k \in Handles :
      /\ \A fid \in 0 .. MAX_NBLOCK_DOUBLE_INDIRECT + 1 :
           /\ Let(get_disk_block_id(dev, objs[k].di, fid), LAMBDA g :
                /\ g.res # "panic"
                /\ fid >= objs[k].di.blocks => g.res = "InvalidParam")
           /\ Let(set_disk_block_id(Cur, k, fid, BLKN_ROOT), LAMBDA u :
                /\ u.res # "panic"
                /\ fid >= objs[k].di.blocks => u.res = "InvalidParam")
      /\ \A len \in {MAX_FILE_SIZE + 1, (MAX_NBLOCK_DOUBLE_INDIRECT + 1) * BLKSIZE} :
           Let(_resize(Cur, k, len), LAMBDA r :
             /\ r.res = "InvalidParam"
             /\ r.objs = objs /\ r.sb = super_block /\ r.fm = free_map
             /\ r.dev = dev)
      /\ ResizeTo(Cur, k, MAX_FILE_SIZE, MAX_NBLOCK_DOUBLE_INDIRECT + 1,
                  objs[k].di.blocks).res = "InvalidParam"

\* t is about to take a lock it cannot get because it holds it itself
SpinsOnItself(t) ==
  /\ NextAcq(t)
  /\ IF Head(locking.task[t].prog).mode = "w"
     THEN HoldsLock(t, Head(locking.task[t].prog).lock)
     ELSE <<Head(locking.task[t].prog).lock, "w">> \in HeldBy(t)

\* C30: no operation goes for a lock its own task already holds in write
\* mode (nor for the write lock of one it holds), so a call running alone
\* is never stopped at a lock: it can always take the lock it goes for
C30_NoSelfLock ==
  \A t \in Tasks :
    /\ ~SpinsOnItself(t)
    /\ NextAcq(t) => CanAcquire(Head(locking.task[t].prog))

\* the INodeImpl objects of the inode id that are alive
ObjectsOf(id) == {k \in Handles : objs[k].id = id}

\* C31: there is at most one live INodeImpl for an inode id, whatever the
\* order in which concurrent get_inode calls for it run, so that all holders
\* see the same size, nlinks and dirty flag; and get_inode returns the
\* cached inode whenever one is live
C31_SingleInode ==
  /\ \A id \in BlockIds : Cardinality(ObjectsOf(id)) <= 1
  /\ \A k, h \in Handles :
       objs[k].id = objs[h].id
         => objs[k].di = objs[h].di /\ objs[k].dirty = objs[h].dirty
  /\ (halted = "no" /\ last.op = "get_inode" /\ last.res = "Ok")
       => ObjectsOf(last.id) = {last.ret}

\* byte i of the file di, through its block pointers
FileByte(d, di, i) ==
  ReadCell(d, get_disk_block_id(d, di, i \div BLKSIZE).v, i % BLKSIZE)

\* read_at(last.offset, buf) has just returned on the file in slot last.k
ReadFrom(S) ==
  /\ last'.res = "Ok"
  /\ last'.n = MinOf(S, last'.offset + last'.len) - MinOf(S, last'.offset)
  /\ \A i \in 1 .. last'.n :
       last'.buf[i] = FileByte(dev, objs[last'.k].di, last'.offset + i - 1)
  /\ \A i \in last'.n + 1 .. last'.len : last'.buf[i] = UNINIT
  /\ UNCHANGED <<dev, super_block, free_map, inodes, objs>>

\* C32: read_at(offset, buf) on a file of size S returns
\* min(S, offset + len) - min(S, offset), puts that many bytes of the file
\* from offset on at the beginning of buf and leaves the rest of buf alone,
\* and changes neither the inode (size, blocks, dirty) nor the free map
C32_ReadAt ==
  [][(last'.op = "read_at" /\ budget' < budget
        /\ objs[last'.k].di.type \in {"File", "SymLink"})
       => ReadFrom(objs[last'.k].di.size)]_vars

\* the inode id of filesystem s as its holders see it, or as the device has it
InodeOf(s, id) ==
  IF s.inodes[id] >= 0 THEN s.objs[s.inodes[id]].di ELSE DecodeINode(s.dev[id])

\* the other directories of s that list the inode id under a name of their
\* own
Listing(s, id) ==
  {q \in BlockIds \ (s.fm.free \cup {id}) :
     /\ InodeOf(s, q).type = "Dir"
     /\ \E i \in 2 .. InodeOf(s, q).size \div DIRENT_SIZE - 1 :
          read_direntry(s.dev, InodeOf(s, q), i).id = id}

\* r returned the node n
Returned(r, n) ==
  /\ r.res = "Ok"
  /\ r.ret.vfs = n.vfs /\ r.ret.fs = n.fs
  /\ InodeId(r, r.ret) = InodeId(MCur, n)

\* r returned a directory that lists the mount point p, as a node of the
\* MountFS of p
ReturnedParentOf(r, p) ==
  /\ r.res = "Ok"
  /\ r.ret.vfs = p.vfs /\ r.ret.fs = p.fs
  /\ Listing(MCur[p.fs], InodeId(MCur, p)) # {}
       => InodeId(r, r.ret) \in Listing(MCur[p.fs], InodeId(MCur, p))

\* the mount point to go on from when ".." is asked of the root n: the
\* nearest one below n that is not itself the root of its filesystem
RECURSIVE MountPointOf(_)
MountPointOf(n) ==
  IF mount_fs[n.vfs].self_mountpoint = NoNode THEN NoNode
  ELSE IF InodeId(MCur, mount_fs[n.vfs].self_mountpoint) = BLKN_ROOT
  THEN MountPointOf(mount_fs[n.vfs].self_mountpoint)
  ELSE mount_fs[n.vfs].self_mountpoint

\* C33: find(true, "..") returns the node itself, and so do find("") and
\* find("."); find(false, "..") on the root of the outermost MountFS returns
\* that root, and on the root of a mounted filesystem it returns a directory
\* that lists the mount point, as a node of the enclosing MountFS
C33_FindUp ==
  halted = "no" =>
    \A h \in MNodes :
      /\ Returned(MNode_find(ProbeM, mnodes[h], TRUE, NameDotDot), mnodes[h])
      /\ \A root \in BOOLEAN, name \in {NameEmpty, NameDot} :
           Returned(MNode_find(ProbeM, mnodes[h], root, name), mnodes[h])
      /\ InodeId(MCur, mnodes[h]) = BLKN_ROOT =>
           IF MountPointOf(mnodes[h]) = NoNode
           THEN \E n \in {mnodes[h]} \cup
                          {mount_fs[v].self_mountpoint : v \in Mounts} :
                  /\ n # NoNode
                  /\ InodeId(MCur, n) = BLKN_ROOT
                  /\ mount_fs[n.vfs].self_mountpoint = NoNode
                  /\ Returned(MNode_find(ProbeM, mnodes[h], FALSE, NameDotDot), n)
           ELSE ReturnedParentOf(MNode_find(ProbeM, mnodes[h], FALSE, NameDotDot),
                                 MountPointOf(mnodes[h]))

\* the entries, other than "." and "..", of the directories held that carry
\* the inode id, as <<directory, index>>
EntriesTo(id) ==
  {e \in Dirs \X (1 .. MAX_FILE_SIZE \div DIRENT_SIZE) :
     /\ e[2] \in DOMAIN Entries(Cur, e[1])
     /\ Entries(Cur, e[1])[e[2]][1] = id
     /\ Entries(Cur, e[1])[e[2]][2] \notin {NameDot, NameDotDot}}

\* the directories listed in the directory in slot d
ChildDirs(d) ==
  {k \in Dirs : \E e \in EntriesTo(objs[k].id) : e[1] = d}

\* C34: with every inode held, the nlinks of an inode that is not a
\* directory is the number of directory entries that carry its id, and the
\* nlinks of a directory that is the root or is listed somewhere is 2 plus
\* the number of directories listed in it
C34_LinkCount ==
  halted = "no" =>
    \A k \in Handles :
      IF objs[k].di.type = "Dir"
      THEN (objs[k].id = BLKN_ROOT \/ EntriesTo(objs[k].id) # {}) =>
             objs[k].di.nlinks = 2 + Cardinality(ChildDirs(k))
      ELSE objs[k].di.nlinks = Cardinality(EntriesTo(objs[k].id))

\* C35: with every inode held, a directory listed in another directory p
\* under a name other than "." and ".." has p's inode id in its ".." entry
C35_DotDot ==
  halted = "no" =>
    \A d \in Dirs : \A e \in EntriesTo(objs[d].id) :
      e[1] # d =>
        /\ 2 \in DOMAIN Entries(Cur, d)
        /\ Entries(Cur, d)[2] = <<objs[e[1]].id, NameDotDot>>

MoveErrors == {"EntryNotFound", "NotDir", "DirRemoved", "NotSameFs", "IsDir"}

\* the entries, size and nlinks of the directory in slot k are the same
\* before and after the step
DirKept(k) ==
  /\ objs'[k].di.size = objs[k].di.size
  /\ objs'[k].di.nlinks = objs[k].di.nlinks
  /\ Entries(Cur, k)' = Entries(Cur, k)

\* C36: a move_ that returns an error leaves the entries, sizes and nlinks
\* of the directories held, the source and the target among them, as they
\* were
C36_MoveErrKeeps ==
  [][(last'.op = "move_" /\ budget' < budget /\ last'.res \in MoveErrors)
       => \A k \in Dirs : DirKept(k)]_vars

\* C37: no directory held has two entries of the same name, and its size is
\* DIRENT_SIZE times the number of its entries
C37_OneEntryPerName ==
  halted = "no" =>
    \A k \in Dirs :
      /\ objs[k].di.size = DIRENT_SIZE * Len(Entries(Cur, k))
      /\ \A i, j \in DOMAIN Entries(Cur, k) :
           Entries(Cur, k)[i][2] = Entries(Cur, k)[j][2] => i = j

\* C38: no step lowers the size of a file held, and a write_at that returns
\* Ok returned the length of its buffer and leaves a size of at least its
\* offset plus that length
C38_WritesKeepSize ==
  [][/\ \A k \in Files : objs'[k].di.size >= objs[k].di.size
     /\ (last'.op = "write_at" /\ last'.res = "Ok" /\ budget' <= budget
           /\ last' # last)
          => /\ "n" \in DOMAIN last' => last'.n = Len(last'.buf)
             /\ objs'[last'.k].di.size >= last'.offset + Len(last'.buf)]_vars

Reread(id) == get_inode(Cur, id, TRUE)

\* C40: when open follows a sync that returned Ok, with every modified inode
\* held, it succeeds, and the superblock fields, the free map, the record of
\* every inode that was held and the entries of the root are those the
\* filesystem had in memory
C40_ReopenEqual ==
  (last.op = "open" /\ last.synced)
    => /\ last.res = "Ok"
       /\ last.blocks = SbBlocks
       /\ last.freemap_blocks = FreemapBlocks
       /\ super_block.unused_blocks = last.unused_blocks
       /\ free_map.free = last.free
       /\ \A k \in 1 .. MaxObjs :
            last.objs[k].id # NONE
              => /\ Ok(Reread(last.objs[k].id))
                 /\ Reread(last.objs[k].id).objs[0].di = last.objs[k].di
       /\ EntriesOf(dev, RootOf(Cur)) = last.root

=========================================================================
